---------------------------- MODULE Spec2Model ----------------------------
(***************************************************************************)
(* Model of the client-side label pipeline of src/src/lib/metrology.ts:    *)
(* parseFieldsFromRawText (OCR text -> OCRExtractedFields) and             *)
(* validateLocally (OCRExtractedFields -> rules + summary).                *)
(*                                                                         *)
(* A JavaScript string is a sequence of one-character strings.  The value  *)
(* `undefined` of an optional field is the one-element sequence            *)
(* <<"undefined">>, which is no string of characters.  Confidences are in  *)
(* hundredths (0.95 is 95, 0.7 is 70).                                     *)
(***************************************************************************)
EXTENDS Naturals, Integers, Sequences, FiniteSets, TLC

VARIABLES
    pc,     \* position of the pipeline: "start", "parsed", "validated"
    raw,    \* the raw OCR text handed to parseFieldsFromRawText, or undefined
    ex,     \* the OCRExtractedFields record, or undefined before it exists
    out,    \* the value returned by validateLocally, or undefined
    refFile,    \* the reference image of a comparison (its 8x8 rendering), or undefined
    userFile,   \* the user image of a comparison, or undefined
    vision,     \* what the Vision endpoint answers to the request of the comparison
    client,     \* the locals h1, h2, x, count of a running cvSimilarityClient
    result,     \* what the similarity strategy that ran last returned or threw
    previous,   \* the results of the comparisons made before the images were swapped
    google,     \* the locals labelSim, colorSim of a googleCVSimilarity that got both responses
    scanner,    \* the state of the Scanner page: results, loading flags, the last toast
    requests,   \* the direct-OCR requests of the page, in the order they were sent
    gemini      \* the module state of the Gemini client and the locals of its running call

vars ==
    <<pc, raw, ex, out, refFile, userFile, vision, client, result, previous, google,
      scanner, requests, gemini>>

cvVars == <<refFile, userFile, vision, client, result, previous, google>>

pageVars == <<scanner, requests, gemini>>

undefined == <<"undefined">>

(***************************************************************************)
(* Characters and character classes of the JavaScript regular expressions. *)
(***************************************************************************)
RUPEE == "U+20B9"   \* the one character U+20B9 (Indian rupee sign)

Digits == {"0", "1", "2", "3", "4", "5", "6", "7", "8", "9"}

UpperCase ==
    <<"A", "B", "C", "D", "E", "F", "G", "H", "I", "J", "K", "L", "M",
      "N", "O", "P", "Q", "R", "S", "T", "U", "V", "W", "X", "Y", "Z">>

LowerCase ==
    <<"a", "b", "c", "d", "e", "f", "g", "h", "i", "j", "k", "l", "m",
      "n", "o", "p", "q", "r", "s", "t", "u", "v", "w", "x", "y", "z">>

UpperSet == {UpperCase[k] : k \in 1..26}

LowerSet == {LowerCase[k] : k \in 1..26}

LowerOf == [c \in UpperSet |-> LowerCase[CHOOSE k \in 1..26 : UpperCase[k] = c]]

\* \s
WhiteSpace == {" ", "\t", "\n", "\r", "\f"}

\* line terminators, which `.` does not match
LineTerminators == {"\n", "\r"}

IsDigit(c) == c \in Digits

IsSpace(c) == c \in WhiteSpace

\* \w
IsWordChar(c) == c \in Digits \/ c \in UpperSet \/ c \in LowerSet \/ c = "_"

toLowerCaseChar(c) == IF c \in UpperSet THEN LowerOf[c] ELSE c

toLowerCase(s) == [i \in 1..Len(s) |-> toLowerCaseChar(s[i])]

\* the literal lit (lower case), ignoring case, at position i of s
LitAtI(s, i, lit) ==
    /\ i >= 1
    /\ i + Len(lit) - 1 <= Len(s)
    /\ \A k \in 1..Len(lit) : toLowerCaseChar(s[i + k - 1]) = lit[k]

\* some match of the literal lit in s, ignoring case
TestLitI(s, lit) == \E i \in 1..Len(s) : LitAtI(s, i, lit)

\* /\d/.test(s)
TestDigit(s) == \E i \in 1..Len(s) : IsDigit(s[i])

\* JavaScript truthiness of a value of type string | undefined
Truthy(v) == v # undefined /\ v # <<>>

\* a || b on values of type string | undefined
OrElse(a, b) == IF Truthy(a) THEN a ELSE b

(***************************************************************************)
(* Helpers of the regular-expression matchers.  Positions are 1-based; a   *)
(* position "after" a match is the index of the first character behind it. *)
(***************************************************************************)
Max(S) == CHOOSE x \in S : \A y \in S : y <= x

Min(S) == CHOOSE x \in S : \A y \in S : x <= y

\* the character at position i, or "" (no character) outside the string
CharAt(s, i) == IF i >= 1 /\ i <= Len(s) THEN s[i] ELSE ""

\* \b at position i (between s[i-1] and s[i])
WordBoundary(s, i) == IsWordChar(CharAt(s, i - 1)) # IsWordChar(CharAt(s, i))

\* greedy \d{0,max} at i: the number of digits taken
DigitRun(s, i, max) ==
    Max({n \in 0..max : \A k \in 0..(n - 1) : IsDigit(CharAt(s, i + k))})

\* greedy \s* at i: the position after it
SkipSpaces(s, i) == Min({j \in i..(Len(s) + 1) : ~IsSpace(CharAt(s, j))})

\* String.prototype.includes for a one-character needle
Includes(s, c) == \E i \in 1..Len(s) : s[i] = c

\* String.prototype.trim
trim(s) ==
    LET keep == {i \in 1..Len(s) : ~IsSpace(s[i])}
    IN  IF keep = {} THEN <<>> ELSE SubSeq(s, Min(keep), Max(keep))

\* s.replace(/<from>/g, <to>) for one-character from and to
ReplaceAllChar(s, from, to) == [i \in 1..Len(s) |-> IF s[i] = from THEN to ELSE s[i]]

\* s.replace(/,/g, "")
RemoveCommas(s) ==
    LET R[i \in 0..Len(s)] ==
            IF i = 0 THEN <<>>
            ELSE IF s[i] = "," THEN R[i - 1] ELSE Append(R[i - 1], s[i])
    IN  R[Len(s)]

\* text.split(/\r?\n/): the pieces between the separators
SplitLines(s) ==
    LET nl == {i \in 1..Len(s) : s[i] = "\n"}
        \* piece that starts at position a (a - 1 is 0 or a "\n")
        PieceFrom(a) ==
            LET later == {i \in nl : i >= a}
                b == IF later = {} THEN Len(s) + 1 ELSE Min(later)
                e == IF later # {} /\ b - 1 >= a /\ s[b - 1] = "\r" THEN b - 2 ELSE b - 1
            IN  SubSeq(s, a, e)
        starts == {1} \cup {i + 1 : i \in nl}
        P[k \in 0..Cardinality(starts)] ==
            IF k = 0 THEN <<>>
            ELSE LET a == CHOOSE x \in starts : Cardinality({y \in starts : y < x}) = k - 1
                 IN  Append(P[k - 1], PieceFrom(a))
    IN  P[Cardinality(starts)]

\* lines.filter(Boolean) after lines.map((l) => l.trim())
TrimmedNonEmptyLines(s) ==
    LET pieces == SplitLines(s)
        L[i \in 0..Len(pieces)] ==
            IF i = 0 THEN <<>>
            ELSE IF trim(pieces[i]) = <<>> THEN L[i - 1] ELSE Append(L[i - 1], trim(pieces[i]))
    IN  L[Len(pieces)]

(***************************************************************************)
(* parseFieldsFromRawText: the matchers                                    *)
(***************************************************************************)
\* (?:₹|rs\.?\s*) at i, ignoring case: the position after it, or 0
MrpPrefixEnd(s, i) ==
    IF CharAt(s, i) = RUPEE THEN i + 1
    ELSE IF LitAtI(s, i, <<"r", "s">>)
         THEN SkipSpaces(s, IF CharAt(s, i + 2) = "." THEN i + 3 ELSE i + 2)
         ELSE 0

\* variant: the amount without its decimal part, (\d{1,5})
MrpAmountEndIntegerOnly(s, p) ==
    LET n == DigitRun(s, p, 5)
    IN  IF n = 0 THEN 0 ELSE p + n


\* (\d{1,5}(?:[\.,]\d{2})?) at p: the position after it, or 0
MrpAmountEnd(s, p) ==
    LET n == DigitRun(s, p, 5)
    IN  IF n = 0 THEN 0
        ELSE IF /\ CharAt(s, p + n) \in {".", ","}
                /\ IsDigit(CharAt(s, p + n + 1))
                /\ IsDigit(CharAt(s, p + n + 2))
             THEN p + n + 3
             ELSE p + n

\* text.match(/(?:₹|rs\.?\s*)(\d{1,5}(?:[\.,]\d{2})?)/i)
mrpMatch(text) ==
    LET At(i) ==
            LET p == MrpPrefixEnd(text, i)
                e == IF p = 0 THEN 0 ELSE MrpAmountEnd(text, p)
            IN  [p |-> p, e |-> e]
        I == {i \in 1..Len(text) : At(i).e # 0}
    IN  IF I = {} THEN [found |-> FALSE, m0 |-> undefined, m1 |-> undefined]
        ELSE LET i == Min(I)
                 m == At(i)
             IN  [found |-> TRUE,
                  m0 |-> SubSeq(text, i, m.e - 1),
                  m1 |-> SubSeq(text, m.p, m.e - 1)]

\* the unit alternatives of the quantity pattern, in the pattern's order
UnitTokens ==
    << <<"k", "g">>, <<"g", "r", "a", "m">>, <<"g", "r", "a", "m", "s">>, <<"g">>,
       <<"m", "l">>, <<"l">>, <<"l", "t">>, <<"l", "i", "t", "e", "r">>,
       <<"l", "i", "t", "r", "e">>, <<"l", "i", "t", "e", "r", "s">>,
       <<"l", "i", "t", "r", "e", "s">>, <<"p", "c", "s">>,
       <<"p", "i", "e", "c", "e">>, <<"p", "i", "e", "c", "e", "s">> >>

UNIT_MAP ==
    (<<"g">> :> <<"g">>) @@
    (<<"g", "r", "a", "m">> :> <<"g">>) @@
    (<<"g", "r", "a", "m", "s">> :> <<"g">>) @@
    (<<"k", "g">> :> <<"k", "g">>) @@
    (<<"k", "i", "l", "o", "g", "r", "a", "m">> :> <<"k", "g">>) @@
    (<<"k", "i", "l", "o", "g", "r", "a", "m", "s">> :> <<"k", "g">>) @@
    (<<"m", "l">> :> <<"m", "l">>) @@
    (<<"l">> :> <<"L">>) @@
    (<<"l", "t">> :> <<"L">>) @@
    (<<"l", "i", "t", "e", "r">> :> <<"L">>) @@
    (<<"l", "i", "t", "r", "e">> :> <<"L">>) @@
    (<<"l", "i", "t", "e", "r", "s">> :> <<"L">>) @@
    (<<"l", "i", "t", "r", "e", "s">> :> <<"L">>) @@
    (<<"p", "c", "s">> :> <<"p", "c", "s">>) @@
    (<<"p", "i", "e", "c", "e">> :> <<"p", "c", "s">>) @@
    (<<"p", "i", "e", "c", "e", "s">> :> <<"p", "c", "s">>)

\* UNIT_MAP[key]
UnitMapGet(key) == IF key \in DOMAIN UNIT_MAP THEN UNIT_MAP[key] ELSE undefined

\* (\d{1,4}(?:[\.,]\d{1,2})?) at i: the position after it, or 0
QtyAmountEnd(s, i) ==
    LET n == DigitRun(s, i, 4)
        f == DigitRun(s, i + n + 1, 2)
    IN  IF n = 0 THEN 0
        ELSE IF CharAt(s, i + n) \in {".", ","} /\ f >= 1 THEN i + n + 1 + f
             ELSE i + n

\* (kg|gram|...|pieces)\b at p, ignoring case: the first alternative, in the
\* pattern's order, that is followed by a word boundary; 0 if there is none
QtyUnitAt(s, p) ==
    LET ok == {k \in 1..Len(UnitTokens) :
                  /\ LitAtI(s, p, UnitTokens[k])
                  /\ WordBoundary(s, p + Len(UnitTokens[k]))}
    IN  IF ok = {} THEN 0 ELSE Min(ok)

\* text.match(/(\d{1,4}(?:[\.,]\d{1,2})?)\s*(kg|gram|...|pieces)\b/i)
qtyMatch(text) ==
    LET At(i) ==
            LET e1 == QtyAmountEnd(text, i)
                p  == IF e1 = 0 THEN 0 ELSE SkipSpaces(text, e1)
                k  == IF e1 = 0 THEN 0 ELSE QtyUnitAt(text, p)
            IN  [e1 |-> e1, p |-> p, k |-> k]
        I == {i \in 1..Len(text) : At(i).k # 0}
    IN  IF I = {} THEN [found |-> FALSE, m1 |-> undefined, m2 |-> undefined]
        ELSE LET i == Min(I)
                 m == At(i)
             IN  [found |-> TRUE,
                  m1 |-> SubSeq(text, i, m.e1 - 1),
                  m2 |-> SubSeq(text, m.p, m.p + Len(UnitTokens[m.k]) - 1)]

\* variant: any two digits, \d{2}
MonthAtAnyTwoDigits(s, i) == IsDigit(CharAt(s, i)) /\ IsDigit(CharAt(s, i + 1))


\* (0[1-9]|1[0-2]) at i
MonthAt(s, i) ==
    \/ CharAt(s, i) = "0" /\ CharAt(s, i + 1) \in (Digits \ {"0"})
    \/ CharAt(s, i) = "1" /\ CharAt(s, i + 1) \in {"0", "1", "2"}

\* (20\d{2}|19\d{2}) at i
YearAt(s, i) ==
    /\ \/ CharAt(s, i) = "2" /\ CharAt(s, i + 1) = "0"
       \/ CharAt(s, i) = "1" /\ CharAt(s, i + 1) = "9"
    /\ IsDigit(CharAt(s, i + 2))
    /\ IsDigit(CharAt(s, i + 3))

\* text.match(/\b(0[1-9]|1[0-2])\s*[\/\.\-]\s*(20\d{2}|19\d{2})\b/)
myMatch(text) ==
    LET At(i) ==
            LET q == SkipSpaces(text, i + 2)
                y == SkipSpaces(text, q + 1)
            IN  IF /\ WordBoundary(text, i)
                   /\ MonthAt(text, i)
                   /\ CharAt(text, q) \in {"/", ".", "-"}
                   /\ YearAt(text, y)
                   /\ WordBoundary(text, y + 4)
                THEN y
                ELSE 0
        I == {i \in 1..Len(text) : At(i) # 0}
    IN  IF I = {} THEN [found |-> FALSE, m1 |-> undefined, m2 |-> undefined]
        ELSE LET i == Min(I)
             IN  [found |-> TRUE,
                  m1 |-> SubSeq(text, i, i + 1),
                  m2 |-> SubSeq(text, At(i), At(i) + 3)]

\* /manufact|mfg\.?\s*by|packer|importer/i.test(l)
TestManufacturer(l) ==
    \/ TestLitI(l, <<"m", "a", "n", "u", "f", "a", "c", "t">>)
    \/ \E i \in 1..Len(l) :
          /\ LitAtI(l, i, <<"m", "f", "g">>)
          /\ LitAtI(l, SkipSpaces(l, IF CharAt(l, i + 3) = "." THEN i + 4 ELSE i + 3),
                    <<"b", "y">>)
    \/ TestLitI(l, <<"p", "a", "c", "k", "e", "r">>)
    \/ TestLitI(l, <<"i", "m", "p", "o", "r", "t", "e", "r">>)

\* /name\s*:/i.test(l)
TestName(l) ==
    \E i \in 1..Len(l) :
        /\ LitAtI(l, i, <<"n", "a", "m", "e">>)
        /\ CharAt(l, SkipSpaces(l, i + 4)) = ":"

\* lines.find(test): the index of the first line that passes, or 0
FindManufacturerLine(lines) ==
    LET I == {i \in 1..Len(lines) : TestManufacturer(lines[i])}
    IN  IF I = {} THEN 0 ELSE Min(I)

FindNameLine(lines) ==
    LET I == {i \in 1..Len(lines) : TestName(lines[i])}
    IN  IF I = {} THEN 0 ELSE Min(I)

\* lines.indexOf(l), 1-based; 0 when l is no element
IndexOf(lines, l) ==
    LET I == {i \in 1..Len(lines) : lines[i] = l}
    IN  IF I = {} THEN 0 ELSE Min(I)

\* l.replace(/.*?:\s*/i, ""): the first match starts at the leftmost a from
\* which a colon is reached without crossing a line terminator, runs lazily
\* to the first such colon and greedily over the white space behind it
StripLabel(l) ==
    LET ColonFrom(a) ==
            LET C == {c \in a..Len(l) : l[c] = ":"}
            IN  IF C = {} THEN 0
                ELSE IF \E k \in a..(Min(C) - 1) : l[k] \in LineTerminators THEN 0
                     ELSE Min(C)
        A == {a \in 1..Len(l) : ColonFrom(a) # 0}
    IN  IF A = {} THEN l
        ELSE LET a == Min(A)
                 e == SkipSpaces(l, ColonFrom(a) + 1)
             IN  SubSeq(l, 1, a - 1) \o SubSeq(l, e, Len(l))

\* /[0-9,]/.test(l)
TestAddress(l) == \E i \in 1..Len(l) : IsDigit(l[i]) \/ l[i] = ","

\* 1[89]00[-\s]?\d{3}[-\s]?\d{3,4} at i: the position after it, or 0
TollFreeEnd(s, i) ==
    LET IsSep(c) == c = "-" \/ IsSpace(c)
        a == IF IsSep(CharAt(s, i + 4)) THEN i + 5 ELSE i + 4
        b == IF IsSep(CharAt(s, a + 3)) THEN a + 4 ELSE a + 3
        n == DigitRun(s, b, 4)
    IN  IF /\ CharAt(s, i) = "1"
           /\ CharAt(s, i + 1) \in {"8", "9"}
           /\ CharAt(s, i + 2) = "0"
           /\ CharAt(s, i + 3) = "0"
           /\ DigitRun(s, a, 3) = 3
           /\ n >= 3
        THEN b + n
        ELSE 0

\* \b\d{10}\b at i: the position after it, or 0
TenDigitsEnd(s, i) ==
    IF WordBoundary(s, i) /\ DigitRun(s, i, 10) = 10 /\ WordBoundary(s, i + 10)
    THEN i + 10
    ELSE 0

\* text.match(/(1[89]00[-\s]?\d{3}[-\s]?\d{3,4}|\b\d{10}\b)/)
careMatch(text) ==
    LET At(i) ==
            IF TollFreeEnd(text, i) # 0 THEN TollFreeEnd(text, i) ELSE TenDigitsEnd(text, i)
        I == {i \in 1..Len(text) : At(i) # 0}
    IN  IF I = {} THEN [found |-> FALSE, m0 |-> undefined]
        ELSE [found |-> TRUE, m0 |-> SubSeq(text, Min(I), At(Min(I)) - 1)]

(***************************************************************************)
(* parseFieldsFromRawText                                                  *)
(***************************************************************************)
\* mrpMatch ? (text.includes("₹") ? `₹${mrpMatch[1]}` : mrpMatch[0]) : undefined
MrpField(text) ==
    LET m == mrpMatch(text)
    IN  IF m.found
        THEN IF Includes(text, RUPEE) THEN <<RUPEE>> \o m.m1 ELSE m.m0
        ELSE undefined

\* net_quantity = qtyMatch[1]?.replace(/,/g, "")
NetQuantityField(text) ==
    LET m == qtyMatch(text)
    IN  IF m.found THEN RemoveCommas(m.m1) ELSE undefined

\* variant: the table is read with the token as matched, not lower-cased
UnitFieldAsMatched(text) ==
    LET m == qtyMatch(text)
    IN  IF m.found THEN OrElse(UnitMapGet(m.m2), toLowerCase(m.m2)) ELSE undefined


\* unit = UNIT_MAP[uRaw] || uRaw
UnitField(text) ==
    LET m == qtyMatch(text)
        uRaw == toLowerCase(m.m2)
    IN  IF m.found THEN OrElse(UnitMapGet(uRaw), uRaw) ELSE undefined

\* myMatch ? `${myMatch[1]}/${myMatch[2]}` : undefined
MonthYearField(text) ==
    LET m == myMatch(text)
    IN  IF m.found THEN m.m1 \o <<"/">> \o m.m2 ELSE undefined

\* manufLine?.replace(/.*?:\s*/i, "")
ManufacturerNameField(lines) ==
    LET i == FindManufacturerLine(lines)
    IN  IF i = 0 THEN undefined ELSE StripLabel(lines[i])

\* variant: the next line is taken whatever it looks like
ManufacturerAddressFieldAnyNextLine(lines) ==
    LET i == FindManufacturerLine(lines)
    IN  IF i >= 1 /\ i + 1 <= Len(lines) THEN lines[i + 1] ELSE undefined


\* idx >= 0 && idx + 1 < lines.length && /[0-9,]/.test(lines[idx + 1]) ? lines[idx + 1] : undefined
ManufacturerAddressField(lines) ==
    LET i == FindManufacturerLine(lines)
        idx == IF i = 0 THEN 0 ELSE IndexOf(lines, lines[i])
    IN  IF idx >= 1 /\ idx + 1 <= Len(lines) /\ TestAddress(lines[idx + 1])
        THEN lines[idx + 1]
        ELSE undefined

\* careMatch ? careMatch[0] : undefined
ConsumerCareField(text) ==
    LET m == careMatch(text)
    IN  IF m.found THEN m.m0 ELSE undefined

\* nameLine ? nameLine.replace(/.*?:\s*/i, "").trim() : undefined
GenericNameField(lines) ==
    LET i == FindNameLine(lines)
    IN  IF i = 0 THEN undefined ELSE trim(StripLabel(lines[i]))

\* variant: raw_text: text.trim()
RawTextFieldTrimmed(rawv, text) == trim(text)


\* raw_text: raw
RawTextField(rawv, text) == rawv

parseFieldsFromRawText(rawv) ==
    LET text  == ReplaceAllChar(OrElse(rawv, <<>>), RUPEE, RUPEE)
        lines == TrimmedNonEmptyLines(text)
    IN  [generic_name |-> GenericNameField(lines),
         mrp |-> MrpField(text),
         net_quantity |-> NetQuantityField(text),
         unit |-> UnitField(text),
         manufacturer_name |-> ManufacturerNameField(lines),
         manufacturer_address |-> ManufacturerAddressField(lines),
         month_year |-> MonthYearField(text),
         consumer_care |-> ConsumerCareField(text),
         raw_text |-> RawTextField(rawv, text)]

(***************************************************************************)
(* validateLocally                                                         *)
(***************************************************************************)
\* variant: the pattern without its end anchor, /^\d+(?:\.\d+)?/
TestNumericUnanchored(s) == Len(s) >= 1 /\ IsDigit(s[1])


\* /^\d+(?:\.\d+)?$/.test(s)
TestNumeric(s) ==
    \E n \in 1..Len(s) :
        /\ \A k \in 1..n : IsDigit(s[k])
        /\ \/ n = Len(s)
           \/ /\ n + 2 <= Len(s)
              /\ s[n + 1] = "."
              /\ \A k \in (n + 2)..Len(s) : IsDigit(s[k])

ValidUnits == {<<"g">>, <<"k", "g">>, <<"m", "l">>, <<"L">>, <<"c", "m">>, <<"m">>, <<"p", "c", "s">>}

\* /mrp|price|₹|rs\.?/i.test(s)
TestMrpProminent(s) ==
    \/ TestLitI(s, <<"m", "r", "p">>)
    \/ TestLitI(s, <<"p", "r", "i", "c", "e">>)
    \/ TestLitI(s, <<RUPEE>>)
    \/ TestLitI(s, <<"r", "s">>)

\* variant: the two confidences exchanged
ConfidenceSwapped(passed) == IF passed THEN 70 ELSE 95


Confidence(passed) == IF passed THEN 95 ELSE 70

add(rules, rule_key, passed) ==
    Append(rules, [rule_key |-> rule_key, passed |-> passed, confidence |-> Confidence(passed)])

Rule1(e) == Truthy(OrElse(e.manufacturer_name, e.manufacturer_address))

Rule2(e) == Truthy(e.generic_name)

Rule3(e) == Truthy(e.net_quantity)

Rule4(e) == Truthy(e.net_quantity) /\ TestNumeric(e.net_quantity)

Rule5(e) == Truthy(e.unit) /\ e.unit \in ValidUnits

Rule6(e) == Truthy(e.month_year)

Rule7(e) == Truthy(e.mrp)

Rule8(e) == Truthy(e.mrp) /\ TestDigit(e.mrp)

\* variant: only the word mrp is looked for
Rule9OnlyMrpWord(e) == Truthy(e.raw_text) /\ TestLitI(e.raw_text, <<"m", "r", "p">>)


Rule9(e) == Truthy(e.raw_text) /\ TestMrpProminent(e.raw_text)

\* variant: ex.consumer_care !== "" in place of truthiness
Rule10NotEmptyString(e) == e.consumer_care # <<>>


Rule10(e) == Truthy(e.consumer_care)

EvaluateRules(e) ==
    LET r0  == <<>>
        r1  == add(r0, "manufacturer_address_present", Rule1(e))
        r2  == add(r1, "generic_name_present", Rule2(e))
        r3  == add(r2, "net_quantity_present", Rule3(e))
        r4  == add(r3, "net_quantity_numeric", Rule4(e))
        r5  == add(r4, "net_quantity_unit_valid", Rule5(e))
        r6  == add(r5, "month_year_present", Rule6(e))
        r7  == add(r6, "mrp_present", Rule7(e))
        r8  == add(r7, "mrp_format_valid", Rule8(e))
        r9  == add(r8, "mrp_prominent_in_text", Rule9(e))
        r10 == add(r9, "consumer_care_present", Rule10(e))
    IN  r10

\* variant: the failed keys collected in reverse order
FailedReversed(rules) ==
    LET F[i \in 0..Len(rules)] ==
            IF i = 0 THEN <<>>
            ELSE IF rules[i].passed THEN F[i - 1]
                 ELSE <<rules[i].rule_key>> \o F[i - 1]
    IN  F[Len(rules)]


\* rules.filter((r) => !r.passed).map((r) => r.rule_key)
Failed(rules) ==
    LET F[i \in 0..Len(rules)] ==
            IF i = 0 THEN <<>>
            ELSE IF rules[i].passed THEN F[i - 1]
                 ELSE Append(F[i - 1], rules[i].rule_key)
    IN  F[Len(rules)]

\* variant: compliant tolerates one violation
SummaryOffByOne(failed) ==
    [compliant |-> Len(failed) <= 1, violations |-> failed, violation_count |-> Len(failed)]


Summary(failed) ==
    [compliant |-> Len(failed) = 0, violations |-> failed, violation_count |-> Len(failed)]

validateLocally(e) ==
    LET rules == EvaluateRules(e)
    IN  [rules |-> rules, summary |-> Summary(Failed(rules))]

(***************************************************************************)
(* Inputs of validateLocally: records of type OCRExtractedFields.          *)
(***************************************************************************)
ManufacturerNameValues == {undefined, <<>>, <<"A", "c", "m", "e">>}

ManufacturerAddressValues == {undefined, <<"1", ",", " ", "R", "d">>}

GenericNameValues == {undefined, <<>>, <<"T", "e", "a">>}

NetQuantityValues ==
    {undefined, <<>>, <<"2", "5", "0">>, <<"2", ".", "5">>, <<"1", ",", "0", "0", "0">>, <<"2", ".">>}

UnitValues == {undefined, <<"g">>, <<"L">>, <<"l">>, <<"c", "m">>, <<"o", "z">>}

MonthYearValues == {undefined, <<"1", "2", "/", "2", "0", "2", "5">>}

MrpValues == {undefined, <<>>, <<RUPEE, "1", "9", "9", ".", "0", "0">>, <<"R", "s">>}

ConsumerCareValues == {undefined, <<"1", "8", "0", "0", "1", "2", "3", "4", "5", "6">>}

RawTextValues ==
    {undefined, <<>>, <<"M", "R", "P", " ", "5">>, <<"a", "b", "c">>,
     <<"H", "o", "u", "r", "s">>, <<RUPEE, "5">>}

ExtractedFieldsInputs ==
    [generic_name : GenericNameValues,
     mrp : MrpValues,
     net_quantity : NetQuantityValues,
     unit : UnitValues,
     manufacturer_name : ManufacturerNameValues,
     manufacturer_address : ManufacturerAddressValues,
     month_year : MonthYearValues,
     consumer_care : ConsumerCareValues,
     raw_text : RawTextValues]

(***************************************************************************)
(* The rule evaluator on its own: any OCRExtractedFields is handed to      *)
(* validateLocally.                                                        *)
(***************************************************************************)
\* no image comparison is under way
NoComparison ==
    /\ refFile = undefined
    /\ userFile = undefined
    /\ vision = undefined
    /\ client = undefined
    /\ result = undefined
    /\ previous = <<>>
    /\ google = undefined

\* The Scanner page as it is mounted (useState(null), useState(false)), with
\* no request sent.  A state that is null or a value is the sequence <<>> or
\* <<value>>.
PageAtRest ==
    /\ scanner = [ocrResult |-> <<>>, ocrLoading |-> FALSE,
                  cvResult |-> <<>>, cvLoading |-> FALSE, toast |-> "none"]
    /\ requests = <<>>

InitValidate ==
    /\ pc = "parsed"
    /\ raw = undefined
    /\ ex \in ExtractedFieldsInputs
    /\ out = undefined
    /\ NoComparison
    /\ PageAtRest
    /\ gemini = undefined

ValidateLocally ==
    /\ pc = "parsed"
    /\ out' = validateLocally(ex)
    /\ pc' = "validated"
    /\ UNCHANGED <<raw, ex>>
    /\ UNCHANGED cvVars
    /\ UNCHANGED pageVars

NextValidate == ValidateLocally

SpecValidate == InitValidate /\ [][NextValidate]_vars

(***************************************************************************)
(* The extract-then-validate pipeline on raw OCR texts.  A text is the     *)
(* concatenation of at most MaxFragments label fragments.                  *)
(***************************************************************************)
MaxFragments == 3

Fragments ==
    { <<RUPEE>>,
      <<"R", "s">>,
      <<".">>,
      <<",">>,
      <<" ">>,
      <<"\n">>,
      <<"5", "0">>,
      <<"g">>,
      <<"M", "f", "g", " ", "b", "y", ":">>,
      <<"N", "a", "m", "e", ":">>,
      <<"A", "c", "m", "e">>,
      <<"1", "2", "/", "2", "0", "2", "5">>,
      <<"1", "8", "0", "0", "1", "2", "3", "4", "5", "6">> }

Concat(fs) ==
    LET C[i \in 0..Len(fs)] == IF i = 0 THEN <<>> ELSE C[i - 1] \o fs[i]
    IN  C[Len(fs)]

Texts == {Concat(fs) : fs \in UNION {[1..n -> Fragments] : n \in 0..MaxFragments}}

Init ==
    /\ pc = "start"
    /\ raw \in Texts
    /\ ex = undefined
    /\ out = undefined
    /\ NoComparison
    /\ PageAtRest
    /\ gemini = undefined

ParseFieldsFromRawText ==
    /\ pc = "start"
    /\ ex' = parseFieldsFromRawText(raw)
    /\ pc' = "parsed"
    /\ UNCHANGED <<raw, out>>
    /\ UNCHANGED cvVars
    /\ UNCHANGED pageVars

Next ==
    \/ ParseFieldsFromRawText
    \/ ValidateLocally

Spec == Init /\ [][Next]_vars

(***************************************************************************)
(* The pipeline on texts that exercise the quantity pattern: an amount, an *)
(* optional space, a unit token in every mix of letter cases, and a tail.  *)
(***************************************************************************)
UpperOf == [c \in LowerSet |-> UpperCase[CHOOSE k \in 1..26 : LowerCase[k] = c]]

CaseVariants(tok) ==
    { [i \in 1..Len(tok) |-> IF i \in U THEN UpperOf[tok[i]] ELSE tok[i]] :
          U \in SUBSET (1..Len(tok)) }

UnitAmounts == {<<"5">>, <<"2", ",", "5">>}

UnitTails == {<<>>, <<".">>, <<"x">>}

UnitTexts ==
    { p \o q \o sp \o v \o t :
          p \in {<<>>, <<"R", "s", ".", "9", " ">>, <<RUPEE, "9", " ">>},
          q \in UnitAmounts,
          sp \in {<<>>, <<" ">>},
          v \in UNION {CaseVariants(UnitTokens[k]) : k \in 1..Len(UnitTokens)},
          t \in UnitTails }

InitUnits ==
    /\ pc = "start"
    /\ raw \in UnitTexts
    /\ ex = undefined
    /\ out = undefined
    /\ NoComparison
    /\ PageAtRest
    /\ gemini = undefined

SpecUnits == InitUnits /\ [][Next]_vars

(***************************************************************************)
(* The pipeline on texts that exercise the month/year pattern.             *)
(***************************************************************************)
DateMonths == {<<"0", "0">>, <<"0", "1">>, <<"0", "9">>, <<"1", "0">>, <<"1", "2">>, <<"1", "3">>, <<"1">>}

DateSeparators == {<<"/">>, <<".">>, <<"-">>, <<":">>}

DateYears ==
    {<<"2", "0", "2", "5">>, <<"1", "9", "9", "9">>, <<"1", "8", "2", "5">>,
     <<"2", "0", "2">>, <<"2", "0", "2", "5", "5">>}

DateTexts ==
    { pre \o mm \o s1 \o sep \o s2 \o yy \o post :
          pre \in {<<>>, <<"x">>, <<" ">>},
          mm \in DateMonths,
          s1 \in {<<>>, <<" ">>},
          sep \in DateSeparators,
          s2 \in {<<>>, <<" ">>},
          yy \in DateYears,
          post \in {<<>>, <<"x">>} }

InitDates ==
    /\ pc = "start"
    /\ raw \in DateTexts
    /\ ex = undefined
    /\ out = undefined
    /\ NoComparison
    /\ PageAtRest
    /\ gemini = undefined

SpecDates == InitDates /\ [][Next]_vars

(***************************************************************************)
(* The pipeline on labels of three lines, and on the single-line label of  *)
(* the worked example.                                                     *)
(***************************************************************************)
LabelLines ==
    {<<>>,
     <<" ">>,
     <<"A", "c", "m", "e">>,
     <<"M", "f", "g", " ", "b", "y", ":">>,
     <<"M", "f", "g", " ", "b", "y", ":", " ", "A", "c", "m", "e">>,
     <<"P", "a", "c", "k", "e", "r", " ", "A", "c", "m", "e", " ">>,
     <<"1", "2", ",", " ", "R", "d">>,
     <<"N", "a", "m", "e", ":", " ", "T", "e", "a">>,
     <<"I", "d", ":", " ", "5", " ", "N", "a", "m", "e", ":", " ", "T", "e", "a">>,
     <<"n", "a", "m", "e", " ", ":">>,
     <<"5", "0">>}

LineBreaks == {<<"\n">>, <<"\r", "\n">>}

ExampleText ==
    <<"M", "R", "P", " ", RUPEE, "1", "9", "9", ".", "0", "0", " ",
      "N", "e", "t", " ", "Q", "t", "y", ":", " ", "2", "5", "0",
      " ", "g", " ", "M", "f", "g", " ", "b", "y", ":", " ", "A",
      "c", "m", "e", " ", "F", "o", "o", "d", "s", " ", "L", "t",
      "d", " ", "1", "2", "/", "2", "0", "2", "5", " ", "C", "o",
      "n", "s", "u", "m", "e", "r", " ", "C", "a", "r", "e", ":",
      " ", "1", "8", "0", "0", "-", "1", "2", "3", "-", "4", "5",
      "6", "7">>

LabelTexts ==
    { l1 \o b1 \o l2 \o b2 \o l3 :
          l1 \in LabelLines, b1 \in LineBreaks, l2 \in LabelLines,
          b2 \in LineBreaks, l3 \in LabelLines }
    \cup {ExampleText}

InitLabels ==
    /\ pc = "start"
    /\ raw \in LabelTexts
    /\ ex = undefined
    /\ out = undefined
    /\ NoComparison
    /\ PageAtRest
    /\ gemini = undefined

SpecLabels == InitLabels /\ [][Next]_vars

(***************************************************************************)
(* Strategy A (cvSimilarityClient): average hash of the 8x8 rendering of   *)
(* each image and the Hamming distance of the two hashes.  A non-negative  *)
(* bigint is the set of the positions of its 1 bits, position 0 being the  *)
(* least significant bit.  A file is the RGB data of its rendering, one    *)
(* <<r, g, b>> per pixel in canvas order, or Unreadable.                   *)
(***************************************************************************)
size == 8

Unreadable == <<"unreadable">>

Black == <<0, 0, 0>>
White == <<255, 255, 255>>
Red == <<255, 0, 0>>
Green == <<0, 255, 0>>
Blue == <<0, 0, 255>>

\* 0.299 * r + 0.587 * g + 0.114 * b, in thousandths
Gray(p) == 299 * p[1] + 587 * p[2] + 114 * p[3]

\* the sum of the first n grays of row r of the canvas
RECURSIVE SumOfRow(_, _, _)
SumOfRow(data, r, n) ==
    IF n = 0 THEN 0 ELSE SumOfRow(data, r, n - 1) + Gray(data[(r - 1) * size + n])

\* gray.reduce((a, b) => a + b, 0) over the first r rows of the canvas
RECURSIVE SumGray(_, _)
SumGray(data, r) ==
    IF r = 0 THEN 0 ELSE SumGray(data, r - 1) + SumOfRow(data, r, size)

\* The colours c for which the double sum of 64 addends 0.299*r + 0.587*g +
\* 0.114*b, divided by 64, is greater than the addend: 64 times 149.685
\* (green) accumulates to 9579.840000000006, so avg > gray on a green canvas.
AverageRoundsUp == {Green}

\* gray[i] >= avg, with sum the exact sum of the grays.  Off the average the
\* doubles compare as the exact values do (they differ by 1/64000 or more);
\* a pixel exactly on the average occurs in a canvas of one colour only,
\* where the rounding of the double sum decides.
AtLeastAverage(data, i, sum) ==
    IF Len(data) * Gray(data[i]) = sum
    THEN data[i] \notin AverageRoundsUp
    ELSE Len(data) * Gray(data[i]) > sum

BigAndNot(x, y) == x \ y

BigXor(x, y) == (x \ y) \cup (y \ x)

\* x - 1n for x > 0n: the lowest 1 bit is cleared and every bit below it set
BigMinus1(x) ==
    LET low == Min(x)
    IN  (x \ {low}) \cup {q \in 0..low : q < low}

\* let hash = 0n; for (i ...) hash = (hash << 1n) | (gray[i] >= avg ? 1n : 0n):
\* each later pixel shifts the bit of pixel i one place up, so that after the
\* last of the Len(data) pixels the bit of pixel i is at place Len(data) - i
AverageHash(data) ==
    LET sum == SumGray(data, size)
    IN  {Len(data) - i : i \in {j \in 1..Len(data) : AtLeastAverage(data, j, sum)}}

\* Number(hash & 0xffffffffn): the low 32 bits of the hash
computeAHash(file) == AverageHash(file) \cap (0..31)

HashLow32(file) == computeAHash(file)

computeAHashBig(file) == AverageHash(file)

\* x & (x - 1n), the next x of the loop of hammingDistanceHashBigInt
NextX(x) == x \cap BigMinus1(x)

SimilarityOver32(dist) == [num |-> 32 - dist, den |-> 32]

\* 1 - dist / 64, an exact double: the fraction num / den
Similarity(dist) == [num |-> 64 - dist, den |-> 64]

toFixed1(sim) == 10 * ((20 * sim.num + sim.den) \div (2 * sim.den))

\* Number(similarity.toFixed(2)) in hundredths; of two nearest the larger
toFixed2(sim) == (200 * sim.num + sim.den) \div (2 * sim.den)

VerdictClient(sim) ==
    IF 100 * sim.num >= 85 * sim.den THEN "likely_match"
    ELSE IF 100 * sim.num >= 70 * sim.den THEN "likely_match_with_warnings"
    ELSE "mismatch"

\* what cvSimilarityClient returns for the distance dist
cvSimilarityClient(dist) ==
    [similarity |-> toFixed2(Similarity(dist)),
     flags |-> <<[key |-> "packaging_layout_diff", present |-> dist > 0]>>,
     verdict |-> VerdictClient(Similarity(dist))]

(***************************************************************************)
(* Strategy B (googleCVSimilarity): labels and dominant colours of the two *)
(* images as the Vision endpoint annotates them.  A response of the        *)
(* endpoint is a record [labels, colors]: the descriptions of its          *)
(* labelAnnotations (<<>> for an annotation without description) and the   *)
(* <<red, green, blue>> of its dominant colours (0 for a missing channel); *)
(* an empty list stands for a list the response does not have.  Fractions  *)
(* are records [num, den]; a similarity returned is in hundredths.         *)
(***************************************************************************)
\* l contains the literal lit
TestLiteral(l, lit) ==
    \E i \in 1..Len(l) : i + Len(lit) - 1 <= Len(l) /\ SubSeq(l, i, i + Len(lit) - 1) = lit

TestLogoWordOnly(l) == TestLiteral(l, <<"l", "o", "g", "o">>)

\* /logo|brand|trademark/.test(l)
TestLogo(l) ==
    \/ TestLiteral(l, <<"l", "o", "g", "o">>)
    \/ TestLiteral(l, <<"b", "r", "a", "n", "d">>)
    \/ TestLiteral(l, <<"t", "r", "a", "d", "e", "m", "a", "r", "k">>)

hasLogoIndication(labels) == \E i \in 1..Len(labels) : TestLogo(labels[i])

\* (x.labelAnnotations || []).map(x => (x.description || "").toLowerCase())
LowerCaseLabels(resp) == [i \in 1..Len(resp.labels) |-> toLowerCase(resp.labels[i])]

jaccardOverFirst(a, b) ==
    IF a = {} THEN [num |-> 0, den |-> 1]
    ELSE [num |-> Cardinality(a \cap b), den |-> Cardinality(a)]

jaccardSimilarity(a, b) ==
    LET inter == Cardinality(a \cap b)
        union == Cardinality(a) + Cardinality(b) - inter
    IN  IF a = {} /\ b = {} THEN [num |-> 0, den |-> 1]
        ELSE IF union = 0 THEN [num |-> 0, den |-> 1]
        ELSE [num |-> inter, den |-> union]

SliceAll(colors) == colors

\* colors.slice(0, 5)
Slice5(colors) == SubSeq(colors, 1, Min({5, Len(colors)}))

\* Math.sqrt of a perfect square (the palettes of the model have no other
\* distances)
Sqrt(q) == CHOOSE r \in 0..442 : r * r = q

colorDistance(a, b) ==
    LET dr == a[1] - b[1]
        dg == a[2] - b[2]
        db == a[3] - b[3]
    IN  Sqrt(dr * dr + dg * dg + db * db)

\* total of the outer loop over the first n colours of a, in 442ths; best of
\* the inner loop is the distance of a[n] to its nearest colour of b
RECURSIVE TotalOfFirst(_, _, _)
TotalOfFirst(a, b, n) ==
    IF n = 0 THEN 0
    ELSE LET best == Min({colorDistance(a[n], b[j]) : j \in 1..Len(b)})
         IN  TotalOfFirst(a, b, n - 1) + (442 - Min({best, 442}))

paletteSimilarity(a, b) ==
    IF a = <<>> \/ b = <<>> THEN [num |-> 0, den |-> 1]
    ELSE [num |-> TotalOfFirst(a, b, Len(a)), den |-> 442 * Len(a)]

\* labelSim * 0.7 + colorSim * 0.3
Weighted(labelSim, colorSim) ==
    [num |-> 7 * labelSim.num * colorSim.den + 3 * colorSim.num * labelSim.den,
     den |-> 10 * labelSim.den * colorSim.den]

\* Number(x.toFixed(2)) of the double x next to the fraction sim, in
\* hundredths: where sim lies midway between two hundredths the rounding
\* error of x decides, either way
ToFixed2OfDouble(sim) ==
    IF (200 * sim.num) % (2 * sim.den) = sim.den
    THEN {(100 * sim.num) \div sim.den, (100 * sim.num) \div sim.den + 1}
    ELSE {(200 * sim.num + sim.den) \div (2 * sim.den)}

VerdictGoogleExclusive(similarity) ==
    IF similarity > 85 THEN "likely_match"
    ELSE IF similarity > 70 THEN "likely_match_with_warnings"
    ELSE "mismatch"

VerdictGoogle(similarity) ==
    IF similarity >= 85 THEN "likely_match"
    ELSE IF similarity >= 70 THEN "likely_match_with_warnings"
    ELSE "mismatch"

\* what googleCVSimilarity returns when it has computed similarity
GoogleResult(refResp, userResp, similarity) ==
    [similarity |-> similarity,
     flags |-> <<[key |-> "packaging_layout_diff", present |-> similarity < 100],
                 [key |-> "logo_mismatch",
                  present |-> \/ ~hasLogoIndication(LowerCaseLabels(refResp))
                              \/ ~hasLogoIndication(LowerCaseLabels(userResp))]>>,
     verdict |-> VerdictGoogle(similarity)]

\* labelSim and colorSim of googleCVSimilarity for the two responses
GoogleLocals(refResp, userResp) ==
    LET refLabels == LowerCaseLabels(refResp)
        userLabels == LowerCaseLabels(userResp)
    IN  [labelSim |-> jaccardSimilarity({refLabels[i] : i \in 1..Len(refLabels)},
                                        {userLabels[i] : i \in 1..Len(userLabels)}),
         colorSim |-> paletteSimilarity(Slice5(refResp.colors), Slice5(userResp.colors))]

\* the outcomes of googleCVSimilarity when the endpoint answers v
googleCVSimilarity(v) ==
    IF v.status = "unreachable" THEN {[error |-> "fetch"]}
    ELSE IF v.status = "error" THEN {[error |-> "Vision status"]}
    ELSE IF Len(v.responses) < 2 THEN {[error |-> "Vision response missing"]}
    ELSE LET refResp == v.responses[1]
             userResp == v.responses[2]
             locals == GoogleLocals(refResp, userResp)
         IN  {GoogleResult(refResp, userResp, similarity) :
                 similarity \in ToFixed2OfDouble(Weighted(locals.labelSim, locals.colorSim))}

(***************************************************************************)
(* One comparison: Strategy B is tried first and Strategy A runs when B    *)
(* has thrown (handleCVSimilarity).                                        *)
(***************************************************************************)
Step(a, b, k) == [i \in 1..(size * size) |-> IF i <= k THEN a ELSE b]

Files ==
    {Step(White, Black, k) : k \in 0..(size * size)}
        \cup {Step(Black, White, k) : k \in {1, 8, 32, 40, 63}}
        \cup {Step(Red, Red, 0), Step(Green, Green, 0), Step(Blue, Blue, 0),
              Step(Red, Green, 32), Step(Blue, Red, 1)}
        \cup {Unreadable}

LabelLists ==
    {<<>>,
     <<<<"t", "e", "a">>>>,
     <<<<"T", "E", "A">>>>,
     <<<<"t", "e", "a">>, <<"T", "E", "A">>>>,
     <<<<"t", "e", "a">>, <<"b", "o", "x">>>>,
     <<<<"b", "o", "x">>, <<>>>>,
     <<<<"L", "o", "g", "o">>, <<"t", "e", "a">>>>,
     <<<<"B", "r", "a", "n", "d", "i", "n", "g">>, <<"t", "e", "a">>>>,
     <<<<"t", "r", "a", "d", "e", "m", "a", "r", "k">>, <<"b", "o", "x">>, <<"t", "e", "a">>>>}

Palettes ==
    {<<>>,
     <<Black>>,
     <<<<221, 0, 0>>>>,
     <<Red, Black>>,
     <<Black, <<221, 0, 0>>>>,
     <<Black, Black, Black, Black, Black, Red>>}

Responses == [labels : LabelLists, colors : Palettes]

Unreachable == [status |-> "unreachable", responses |-> <<>>]

Visions ==
    {Unreachable, [status |-> "error", responses |-> <<>>]}
        \cup {[status |-> "ok", responses |-> <<>>],
              [status |-> "ok",
               responses |-> <<[labels |-> <<<<"t", "e", "a">>>>, colors |-> <<Black>>]>>]}
        \cup {[status |-> "ok", responses |-> <<r, u>>] : r \in Responses, u \in Responses}

\* hashes with every bit set, no bit set, the 10 top bits and the 32 low bits
ReferenceFiles ==
    {Step(White, Black, 0), Step(Green, Green, 0), Step(White, Black, 10),
     Step(Black, White, 32), Unreadable}

\* the two images of the page (null before a file is chosen) and the answer
\* of the endpoint to the request they lead to
Comparisons ==
    {<<r, u, Unreachable>> : r \in ReferenceFiles, u \in Files}
        \cup {<<r, u, Unreachable>> : r \in Files, u \in ReferenceFiles}
        \cup {<<Step(White, Black, 8), Step(White, Black, 8), v>> : v \in Visions}
        \cup {<<undefined, Step(White, Black, 8), Unreachable>>,
              <<Step(White, Black, 8), undefined, Unreachable>>,
              <<undefined, undefined, Unreachable>>}

InitCV ==
    /\ pc = "cv_idle"
    /\ raw = undefined
    /\ ex = undefined
    /\ out = undefined
    /\ \E c \in Comparisons : refFile = c[1] /\ userFile = c[2] /\ vision = c[3]
    /\ client = undefined
    /\ result = undefined
    /\ previous = <<>>
    /\ google = undefined
    /\ PageAtRest
    /\ gemini = undefined

\* handleCVSimilarity up to its first await: without both images it toasts
\* and returns, otherwise it sets the loading flag and calls Strategy B
HandleCVSimilarity ==
    /\ pc = "cv_idle"
    /\ IF refFile = undefined \/ userFile = undefined
       THEN /\ scanner' = [scanner EXCEPT !.toast = "info"]
            /\ pc' = "cv_rejected"
       ELSE /\ scanner' = [scanner EXCEPT !.cvLoading = TRUE]
            /\ pc' = "cv_start"
    /\ UNCHANGED <<raw, ex, out, requests, gemini>>
    /\ UNCHANGED cvVars

\* googleCVSimilarity settles: its result is stored and the handler returns
\* through finally, or its error is swallowed by catch {}
GoogleCVSimilarity ==
    /\ pc = "cv_start"
    /\ \E g \in googleCVSimilarity(vision) :
          /\ result' = g
          /\ IF "error" \in DOMAIN g
             THEN /\ pc' = "cv_google_failed"
                  /\ UNCHANGED <<scanner, google>>
             ELSE /\ pc' = "cv_google_returned"
                  /\ google' = GoogleLocals(vision.responses[1], vision.responses[2])
                  /\ scanner' = [scanner EXCEPT !.cvResult = <<g>>, !.toast = "success",
                                                !.cvLoading = FALSE]
    /\ UNCHANGED <<raw, ex, out, refFile, userFile, vision, client, previous, requests, gemini>>

CvSimilarityClientStoresFailure ==
    /\ pc = "cv_google_failed"
    /\ result' = [error |-> "image"]
    /\ pc' = "cv_client_failed"
    /\ scanner' = [scanner EXCEPT !.cvResult = <<[error |-> "image"]>>, !.cvLoading = FALSE]
    /\ UNCHANGED <<raw, ex, out, refFile, userFile, vision, client, previous, google,
                   requests, gemini>>

\* cvSimilarityClient up to the first test of while (x): both hashes are
\* awaited and x = a ^ b; an image that cannot be loaded rejects the call,
\* which the handler catches with an error toast before finally
CvSimilarityClient ==
    /\ pc = "cv_google_failed"
    /\ IF refFile = Unreadable \/ userFile = Unreadable
       THEN /\ result' = [error |-> "image"]
            /\ pc' = "cv_client_failed"
            /\ scanner' = [scanner EXCEPT !.toast = "error", !.cvLoading = FALSE]
            /\ UNCHANGED client
       ELSE /\ client' = [h1 |-> computeAHashBig(refFile),
                          h2 |-> computeAHashBig(userFile),
                          x |-> BigXor(computeAHashBig(refFile), computeAHashBig(userFile)),
                          count |-> 0]
            /\ pc' = "cv_hamming"
            /\ UNCHANGED <<result, scanner>>
    /\ UNCHANGED <<raw, ex, out, refFile, userFile, vision, previous, google, requests, gemini>>

\* one pass of while (x) { x &= x - 1n; count++ }
HammingPass ==
    /\ pc = "cv_hamming"
    /\ client.x # {}
    /\ client' = [client EXCEPT !.x = NextX(@), !.count = @ + 1]
    /\ UNCHANGED <<pc, raw, ex, out, refFile, userFile, vision, result, previous, google>>
    /\ UNCHANGED pageVars

\* the loop has ended: dist = count, cvSimilarityClient returns, its result
\* is stored and the handler ends through finally
CvSimilarityClientReturn ==
    /\ pc = "cv_hamming"
    /\ client.x = {}
    /\ result' = cvSimilarityClient(client.count)
    /\ pc' = "cv_client_returned"
    /\ scanner' = [scanner EXCEPT !.cvResult = <<cvSimilarityClient(client.count)>>,
                                  !.toast = "success", !.cvLoading = FALSE]
    /\ UNCHANGED <<raw, ex, out, refFile, userFile, vision, client, previous, google,
                   requests, gemini>>

MaxSwaps == 1

\* the user selects the two images the other way round and compares again;
\* the endpoint then annotates them in the other order
SwapImages ==
    /\ pc \in {"cv_google_returned", "cv_client_returned", "cv_client_failed"}
    /\ Len(previous) < MaxSwaps
    /\ previous' = Append(previous, result)
    /\ refFile' = userFile
    /\ userFile' = refFile
    /\ vision' = IF Len(vision.responses) = 2
                  THEN [vision EXCEPT !.responses = <<@[2], @[1]>>]
                  ELSE vision
    /\ client' = undefined
    /\ result' = undefined
    /\ google' = undefined
    /\ pc' = "cv_idle"
    /\ UNCHANGED <<raw, ex, out>>
    /\ UNCHANGED pageVars

\* the user replaces the user image by a file that cannot be rendered and
\* compares again, while the endpoint cannot be reached
SelectUserImage ==
    /\ pc \in {"cv_google_returned", "cv_client_returned", "cv_client_failed"}
    /\ Len(previous) < MaxSwaps
    /\ previous' = Append(previous, result)
    /\ userFile' = Unreadable
    /\ vision' = Unreachable
    /\ client' = undefined
    /\ result' = undefined
    /\ google' = undefined
    /\ pc' = "cv_idle"
    /\ UNCHANGED <<raw, ex, out, refFile>>
    /\ UNCHANGED pageVars

NextCV ==
    \/ HandleCVSimilarity
    \/ GoogleCVSimilarity
    \/ CvSimilarityClient
    \/ HammingPass
    \/ CvSimilarityClientReturn
    \/ SwapImages
    \/ SelectUserImage

SpecCV == InitCV /\ [][NextCV]_vars

(***************************************************************************)
(* The Gemini client (generateWithGemini): the default model is tried      *)
(* first, then the models that ListModels reports.  gemini holds the       *)
(* module state discoveredModels (null is <<>>, an array a is <<a>>), what  *)
(* the ListModels endpoint reports for the key in this session (models),   *)
(* and the locals of the call under way.  A model name is a string.        *)
(***************************************************************************)
STABLE_DEFAULT_MODEL == <<"g", "e", "m", "i", "n", "i", "-", "1", ".", "5", "-", "f", "l", "a", "s", "h">>

\* /^p/.test(m)
TestPrefix(m, p) == Len(m) >= Len(p) /\ SubSeq(m, 1, Len(p)) = p

RECURSIVE uniq(_)
uniq(arr) ==
    IF arr = <<>> THEN <<>>
    ELSE LET front == uniq(SubSeq(arr, 1, Len(arr) - 1))
             last == arr[Len(arr)]
         IN  IF \E i \in 1..Len(front) : front[i] = last THEN front ELSE Append(front, last)

\* the names of data.models: the string names that are not empty, without a
\* leading models/ (an entry without a string name is <<>>)
ModelNames(models) ==
    LET named == SelectSeq(models, LAMBDA n : n # <<>>)
    IN  [i \in 1..Len(named) |->
            IF TestPrefix(named[i], <<"m", "o", "d", "e", "l", "s", "/">>)
            THEN SubSeq(named[i], 8, Len(named[i]))
            ELSE named[i]]

score(m) ==
    IF m = <<"g", "e", "m", "i", "n", "i", "-", "1", ".", "5", "-", "f", "l", "a", "s", "h">> THEN 100
    ELSE IF TestPrefix(m, <<"g", "e", "m", "i", "n", "i", "-", "1", ".", "5", "-", "f", "l", "a", "s", "h", "-", "8", "b">>) THEN 90
    ELSE IF TestPrefix(m, <<"g", "e", "m", "i", "n", "i", "-", "1", ".", "5", "-", "p", "r", "o">>) THEN 80
    ELSE IF TestPrefix(m, <<"g", "e", "m", "i", "n", "i", "-">>) THEN 50
    ELSE 0

\* models.slice().sort((a, b) => score(b) - score(a)): the sort is stable, so
\* the place of models[i] is one more than the number of entries with a higher
\* score or with the same score and a smaller index
sortByPreference(models) ==
    LET before(i) == {j \in 1..Len(models) :
                         \/ score(models[j]) > score(models[i])
                         \/ score(models[j]) = score(models[i]) /\ j < i}
    IN  [k \in 1..Len(models) |->
            models[CHOOSE i \in 1..Len(models) : Cardinality(before(i)) = k - 1]]

\* getCandidateModels for the list that listModelsV1 returns
getCandidateModels(listed) ==
    LET gemini_ == SelectSeq(listed, LAMBDA m : TestPrefix(m, <<"g", "e", "m", "i", "n", "i", "-">>))
    IN  uniq(<<STABLE_DEFAULT_MODEL>> \o sortByPreference(gemini_))

Listings ==
    {<<>>,
     <<<<"m", "o", "d", "e", "l", "s", "/", "g", "e", "m", "i", "n", "i", "-", "1", ".", "5", "-", "p", "r", "o">>,
       <<"m", "o", "d", "e", "l", "s", "/", "g", "e", "m", "i", "n", "i", "-", "1", ".", "5", "-", "p", "r", "o">>>>,
     <<<<"m", "o", "d", "e", "l", "s", "/", "g", "e", "m", "i", "n", "i", "-", "1", ".", "5", "-", "p", "r", "o">>,
       <<"m", "o", "d", "e", "l", "s", "/", "g", "e", "m", "i", "n", "i", "-", "1", ".", "5", "-", "f", "l", "a", "s", "h">>,
       <<"m", "o", "d", "e", "l", "s", "/", "e", "m", "b", "e", "d", "d", "i", "n", "g", "-", "0", "0", "1">>,
       <<>>,
       <<"g", "e", "m", "i", "n", "i", "-", "2", ".", "0", "-", "f", "l", "a", "s", "h">>,
       <<"m", "o", "d", "e", "l", "s", "/", "g", "e", "m", "i", "n", "i", "-", "1", ".", "5", "-", "f", "l", "a", "s", "h", "-", "8", "b", "-", "0", "0", "1">>>>}

MaxCalls == 3

InitGemini ==
    /\ pc = "gm_idle"
    /\ raw = undefined
    /\ ex = undefined
    /\ out = undefined
    /\ NoComparison
    /\ PageAtRest
    /\ \E l \in Listings :
          gemini = [discoveredModels |-> <<>>, models |-> l, listOk |-> TRUE, calls |-> 0,
                    tried |-> <<>>, candidates |-> <<>>, next |-> 0, lastError |-> FALSE,
                    output |-> <<>>]

\* generateWithGemini up to the fetch of its first attempt: tried is empty,
\* modelsToTry is the default model alone and attempt pushes it to tried.
\* Whether the ListModels endpoint answers during the call is the
\* environment's choice.
GenerateWithGemini ==
    /\ pc \in {"gm_idle", "gm_returned", "gm_threw"}
    /\ gemini.calls < MaxCalls
    /\ \E ok \in BOOLEAN :
          gemini' = [gemini EXCEPT !.calls = @ + 1, !.listOk = ok,
                                   !.tried = <<STABLE_DEFAULT_MODEL>>, !.candidates = <<>>,
                                   !.next = 0, !.lastError = FALSE, !.output = <<>>]
    /\ pc' = "gm_default"
    /\ UNCHANGED <<raw, ex, out, scanner, requests>>
    /\ UNCHANGED cvVars

\* the loop over discovered from its entry k on: the first entry that is not
\* in modelsToTry is attempted; without one the loop ends and the call throws
Discovered(g, discovered, k) ==
    LET I == {i \in k..Len(discovered) : discovered[i] # STABLE_DEFAULT_MODEL}
    IN  IF I = {} THEN [g EXCEPT !.candidates = discovered, !.next = 0]
        ELSE [g EXCEPT !.candidates = discovered, !.next = Min(I),
                       !.tried = Append(@, discovered[Min(I)])]

\* an attempt settles: with text the model is pushed to discoveredModels and
\* the call returns the text; without, lastError is set and the call goes on:
\* after the default model to listModelsV1, which returns discoveredModels if
\* it is truthy (any array) and fetches otherwise, and within the loop to the
\* next candidate
AttemptSettles ==
    /\ pc \in {"gm_default", "gm_candidate"}
    /\ \E text \in BOOLEAN :
          IF text
          THEN /\ gemini' = [gemini EXCEPT
                                !.discoveredModels =
                                    IF @ = <<>> THEN <<<<gemini.tried[Len(gemini.tried)]>>>>
                                    ELSE <<Append(@[1], gemini.tried[Len(gemini.tried)])>>,
                                !.lastError = FALSE,
                                !.output = <<"t", "e", "x", "t">>]
               /\ pc' = "gm_returned"
          ELSE LET failed == [gemini EXCEPT !.lastError = TRUE]
                   after == IF pc = "gm_candidate"
                            THEN Discovered(failed, gemini.candidates, gemini.next + 1)
                            ELSE Discovered(failed,
                                            getCandidateModels(gemini.discoveredModels[1]), 1)
               IN  IF pc = "gm_default" /\ gemini.discoveredModels = <<>>
                   THEN gemini' = failed /\ pc' = "gm_listing"
                   ELSE /\ gemini' = after
                        /\ pc' = IF after.next = 0 THEN "gm_threw" ELSE "gm_candidate"
    /\ UNCHANGED <<raw, ex, out, scanner, requests>>
    /\ UNCHANGED cvVars

\* the fetch of listModelsV1 settles: the names are cached, or [] when the
\* request failed; getCandidateModels and the loop over discovered follow
ListModelsSettles ==
    /\ pc = "gm_listing"
    /\ LET names == IF gemini.listOk THEN uniq(ModelNames(gemini.models)) ELSE <<>>
           after == Discovered([gemini EXCEPT !.discoveredModels = <<names>>],
                               getCandidateModels(names), 1)
       IN  /\ gemini' = after
           /\ pc' = IF after.next = 0 THEN "gm_threw" ELSE "gm_candidate"
    /\ UNCHANGED <<raw, ex, out, scanner, requests>>
    /\ UNCHANGED cvVars

NextGemini ==
    \/ GenerateWithGemini
    \/ AttemptSettles
    \/ ListModelsSettles

SpecGemini == InitGemini /\ [][NextGemini]_vars

(***************************************************************************)
(* The label selections of the Scanner page (handleOCRFileSelected with    *)
(* direct OCR).  A selected file is what the OCR service makes of it:      *)
(* <<text>> for a non-empty recognized text, <<>> when the request fails   *)
(* or the text is empty.  requests[i] is the i-th request sent, pending    *)
(* until it settles.                                                       *)
(***************************************************************************)
MaxSelections == 3

InitOCR ==
    /\ pc = "ocr"
    /\ raw = undefined
    /\ ex = undefined
    /\ out = undefined
    /\ NoComparison
    /\ PageAtRest
    /\ gemini = undefined

\* handleOCRFileSelected up to its await: without a file it only clears the
\* preview; with one it sets the loading flag, clears the result and sends
\* the request
HandleOCRFileSelected ==
    /\ pc = "ocr"
    /\ Len(requests) < MaxSelections
    /\ \E selected \in {<<>>, <<<<>>>>, <<<<<<"R", "s", "5", "0">>>>>>, <<<<<<"5", "0", "g">>>>>>} :
          IF selected = <<>>
          THEN UNCHANGED <<scanner, requests>>
          ELSE /\ scanner' = [scanner EXCEPT !.ocrLoading = TRUE, !.ocrResult = <<>>]
               /\ requests' = Append(requests, [file |-> selected[1], pending |-> TRUE])
    /\ UNCHANGED <<pc, raw, ex, out, gemini>>
    /\ UNCHANGED cvVars

\* a request settles, in whatever order the responses arrive: with a text the
\* fields are extracted and validated and the result is stored; a failure is
\* toasted; finally the loading flag is cleared
ScanOCRSettles ==
    /\ pc = "ocr"
    /\ \E i \in 1..Len(requests) :
          /\ requests[i].pending
          /\ requests' = [requests EXCEPT ![i].pending = FALSE]
          /\ IF requests[i].file = <<>>
             THEN scanner' = [scanner EXCEPT !.toast = "error", !.ocrLoading = FALSE]
             ELSE \E extracted \in {parseFieldsFromRawText(requests[i].file[1])} :
                  \E local \in {validateLocally(extracted)} :
                     scanner' = [scanner EXCEPT
                                    !.ocrResult = <<[scan_id |-> "direct-ocrspace",
                                                     extracted |-> extracted,
                                                     rules |-> local.rules,
                                                     summary |-> local.summary]>>,
                                    !.toast = "success",
                                    !.ocrLoading = FALSE]
    /\ UNCHANGED <<pc, raw, ex, out, gemini>>
    /\ UNCHANGED cvVars

NextOCR ==
    \/ HandleOCRFileSelected
    \/ ScanOCRSettles

SpecOCR == InitOCR /\ [][NextOCR]_vars

(***************************************************************************)
(* Vocabulary of the properties below, taken from their statements.        *)
(***************************************************************************)
\* the fixed rule order
RuleKeyOrder ==
    <<"manufacturer_address_present", "generic_name_present", "net_quantity_present",
      "net_quantity_numeric", "net_quantity_unit_valid", "month_year_present",
      "mrp_present", "mrp_format_valid", "mrp_prominent_in_text", "consumer_care_present">>

OptionalFields ==
    {"generic_name", "mrp", "net_quantity", "unit", "manufacturer_name",
     "manufacturer_address", "month_year", "consumer_care"}

\* a field is present when it holds a non-empty string
Present(v) == v # undefined /\ Len(v) > 0

\* an integer-or-decimal numeral: digits, with at most one "." strictly inside
IsNumeral(v) ==
    /\ Len(v) > 0
    /\ \A i \in 1..Len(v) : v[i] \in Digits \cup {"."}
    /\ Cardinality({i \in 1..Len(v) : v[i] = "."}) <= 1
    /\ v[1] \in Digits
    /\ v[Len(v)] \in Digits

NormalizedUnits ==
    {<<"g">>, <<"k", "g">>, <<"m", "l">>, <<"L">>, <<"c", "m">>, <<"m">>, <<"p", "c", "s">>}

\* the string v contains the word w, ignoring case (w in lower case)
ContainsIgnoringCase(v, w) ==
    /\ v # undefined
    /\ \E a \in 1..Len(v) : \E b \in a..Len(v) : toLowerCase(SubSeq(v, a, b)) = w

\* the text mentions the price: mrp, price, the rupee symbol or rs
MentionsPrice(v) ==
    \/ ContainsIgnoringCase(v, <<"m", "r", "p">>)
    \/ ContainsIgnoringCase(v, <<"p", "r", "i", "c", "e">>)
    \/ ContainsIgnoringCase(v, <<RUPEE>>)
    \/ ContainsIgnoringCase(v, <<"r", "s">>)

\* the condition each rule is stated to check, by position in the rule order
StatedCondition(e) ==
    << Present(e.manufacturer_name) \/ Present(e.manufacturer_address),
       Present(e.generic_name),
       Present(e.net_quantity),
       Present(e.net_quantity) /\ IsNumeral(e.net_quantity),
       Present(e.unit) /\ e.unit \in NormalizedUnits,
       Present(e.month_year),
       Present(e.mrp),
       Present(e.mrp) /\ \E i \in 1..Len(e.mrp) : e.mrp[i] \in Digits,
       MentionsPrice(e.raw_text),
       Present(e.consumer_care) >>

\* the rule keys of the failed rules, in rule order
FailedKeysInOrder(rules) ==
    LET idx == {i \in 1..Len(rules) : ~rules[i].passed}
        nth(j) == CHOOSE i \in idx : Cardinality({k \in idx : k < i}) = j - 1
    IN  [j \in 1..Cardinality(idx) |-> rules[nth(j)].rule_key]

Validated == pc = "validated"

AllOptionalAbsent(e) == \A f \in OptionalFields : e[f] = undefined

\* MM/YYYY
IsMonthYear(v) ==
    /\ Len(v) = 7
    /\ v[3] = "/"
    /\ \A i \in {1, 2, 4, 5, 6, 7} : v[i] \in Digits

\* every optional field is present and has its described shape
AllOptionalWellFormed(e) ==
    /\ \A f \in OptionalFields : Present(e[f])
    /\ IsNumeral(e.net_quantity)
    /\ e.unit \in NormalizedUnits
    /\ IsMonthYear(e.month_year)
    /\ \E i \in 1..Len(e.mrp) : e.mrp[i] \in Digits
    /\ \E i \in 1..Len(e.consumer_care) : e.consumer_care[i] \in Digits

AllRulesPass(o) ==
    /\ \A i \in 1..Len(o.rules) : o.rules[i].passed
    /\ Len(o.rules) = 10
    /\ o.summary.compliant = TRUE
    /\ o.summary.violations = <<>>

(***************************************************************************)
(* Properties of validateLocally (checked under SpecValidate)              *)
(***************************************************************************)
\* C1: the summary returned by validateLocally has compliant equal to
\* (violation_count = 0) and violation_count equal to the length of violations.
C1_SummaryConsistent ==
    Validated =>
        /\ out.summary.compliant = (out.summary.violation_count = 0)
        /\ out.summary.violation_count = Len(out.summary.violations)

C1_Witness == Validated /\ out.summary.compliant /\ out.summary.violation_count = 0

\* C2: validateLocally returns exactly ten results, with pairwise distinct
\* rule keys in the fixed rule order, and summary.violations is exactly the
\* rule keys of the failed rules in that order.
C2_FixedRuleOrder ==
    Validated =>
        /\ Len(out.rules) = 10
        /\ \A i \in 1..10 : out.rules[i].rule_key = RuleKeyOrder[i]
        /\ \A i, j \in 1..10 : i # j => out.rules[i].rule_key # out.rules[j].rule_key
        /\ out.summary.violations = FailedKeysInOrder(out.rules)

C2_Witness ==
    /\ Validated
    /\ ~out.rules[2].passed
    /\ out.rules[3].passed
    /\ ~out.rules[5].passed
    /\ Len(out.summary.violations) >= 2

\* C3: the passed flag of every rule equals the rule's stated condition.
C3_RuleConditions ==
    Validated => \A i \in 1..10 : out.rules[i].passed = StatedCondition(ex)[i]

C3_Witness ==
    /\ Validated
    /\ ex.net_quantity = <<"1", ",", "0", "0", "0">>
    /\ ex.unit = <<"c", "m">>
    /\ ex.mrp = <<"R", "s">>
    /\ ex.raw_text = <<"H", "o", "u", "r", "s">>
    /\ out.rules[3].passed
    /\ ~out.rules[4].passed
    /\ out.rules[5].passed
    /\ ~out.rules[8].passed
    /\ out.rules[9].passed

\* C4 (as stated): when all eight optional fields and raw_text are present and
\* well-formed, all ten rules pass and the summary is compliant without violations.
C4_AllWellFormedPass ==
    (Validated /\ AllOptionalWellFormed(ex) /\ Present(ex.raw_text)) => AllRulesPass(out)

\* C4 (amended): when all eight optional fields are present and well-formed
\* and raw_text mentions the price (mrp, price, the rupee symbol or rs), all
\* ten rules pass and the summary is compliant without violations.
C4_AllWellFormedPassAmended ==
    (Validated /\ AllOptionalWellFormed(ex) /\ MentionsPrice(ex.raw_text)) => AllRulesPass(out)

C4_Witness ==
    /\ Validated
    /\ AllOptionalWellFormed(ex)
    /\ MentionsPrice(ex.raw_text)
    /\ out.summary.compliant

\* C5: when all eight optional fields are absent, rules 1-8 and 10 fail, the
\* outcome of mrp_prominent_in_text is decided by raw_text alone, and the
\* violations are the failed rule keys in rule order.
C5_AllAbsent ==
    (Validated /\ AllOptionalAbsent(ex)) =>
        /\ \A i \in (1..10) \ {9} : ~out.rules[i].passed
        /\ out.rules[9].passed = MentionsPrice(ex.raw_text)
        /\ out.summary.violations =
               IF MentionsPrice(ex.raw_text)
               THEN SelectSeq(RuleKeyOrder, LAMBDA k : k # "mrp_prominent_in_text")
               ELSE RuleKeyOrder

C5_Witness ==
    /\ Validated
    /\ AllOptionalAbsent(ex)
    /\ out.rules[9].passed
    /\ Len(out.summary.violations) = 9

\* C7: every rule result has confidence 0.95 exactly when it passed and 0.70
\* exactly when it failed, and no other confidence occurs.
C7_ConfidencePolicy ==
    Validated =>
        \A i \in 1..Len(out.rules) :
            /\ (out.rules[i].confidence = 95) = out.rules[i].passed
            /\ (out.rules[i].confidence = 70) = ~out.rules[i].passed
            /\ out.rules[i].confidence \in {95, 70}

C7_Witness ==
    /\ Validated
    /\ out.rules[1].passed /\ out.rules[1].confidence = 95
    /\ ~out.rules[2].passed /\ out.rules[2].confidence = 70

(***************************************************************************)
(* Properties of parseFieldsFromRawText (checked under Spec)               *)
(***************************************************************************)
Parsed == pc # "start"

\* no pattern of the extractor is recognized in the text
NoRecognizablePattern(t) ==
    /\ ~mrpMatch(t).found
    /\ ~qtyMatch(t).found
    /\ ~myMatch(t).found
    /\ ~careMatch(t).found
    /\ FindManufacturerLine(TrimmedNonEmptyLines(t)) = 0
    /\ FindNameLine(TrimmedNonEmptyLines(t)) = 0

\* C8: the record returned for a raw text has raw_text equal to the input
\* exactly, and when no pattern is recognized all eight optional fields are absent.
C8_RawTextRoundTrip ==
    Parsed =>
        /\ ex.raw_text = raw
        /\ NoRecognizablePattern(raw) => AllOptionalAbsent(ex)

C8_Witness ==
    /\ Parsed
    /\ raw = <<" ", "A", "c", "m", "e", "\n">>
    /\ ex.raw_text = <<" ", "A", "c", "m", "e", "\n">>
    /\ NoRecognizablePattern(raw)
    /\ AllOptionalAbsent(ex)

\* C9: every optional field of the returned record is absent or a non-empty
\* string, also for a line that has nothing behind its label colon.
C9_OptionalFieldsNonEmpty ==
    Parsed => \A f \in OptionalFields : ex[f] = undefined \/ Len(ex[f]) > 0

\* C10: when an MRP amount is matched, mrp is the rupee symbol followed by
\* the amount exactly when the rupee symbol occurs in the matched span, and a
\* match made through an Rs prefix is kept as matched, wherever else a rupee
\* symbol occurs in the text.
C10_MrpFollowsMatchedSpan ==
    (Parsed /\ mrpMatch(raw).found) =>
        LET m == mrpMatch(raw)
        IN  /\ (ex.mrp = <<RUPEE>> \o m.m1) = Includes(m.m0, RUPEE)
            /\ ~Includes(m.m0, RUPEE) => ex.mrp = m.m0

(***************************************************************************)
(* Properties of the extractor's single fields                             *)
(***************************************************************************)
\* the canonical code the lookup table is stated to give each unit token
StatedCanonicalUnit(tok) ==
    CASE tok \in {<<"k", "g">>} -> <<"k", "g">>
      [] tok \in {<<"g">>, <<"g", "r", "a", "m">>, <<"g", "r", "a", "m", "s">>} -> <<"g">>
      [] tok \in {<<"m", "l">>} -> <<"m", "l">>
      [] tok \in {<<"l">>, <<"l", "t">>, <<"l", "i", "t", "e", "r">>, <<"l", "i", "t", "r", "e">>,
                  <<"l", "i", "t", "e", "r", "s">>, <<"l", "i", "t", "r", "e", "s">>} -> <<"L">>
      [] tok \in {<<"p", "c", "s">>, <<"p", "i", "e", "c", "e">>,
                  <<"p", "i", "e", "c", "e", "s">>} -> <<"p", "c", "s">>
      [] OTHER -> undefined

\* C11: for a recognized unit token, in any letter case, the extracted unit
\* is the token's canonical code from the lookup table, a member of the
\* normalized unit set; the lower-cased pass-through is never taken.
C11_UnitCanonical ==
    (Parsed /\ qtyMatch(raw).found) =>
        LET tok == toLowerCase(qtyMatch(raw).m2)
        IN  /\ ex.unit = StatedCanonicalUnit(tok)
            /\ ex.unit \in NormalizedUnits
            /\ tok \in DOMAIN UNIT_MAP
            /\ ex.unit = UNIT_MAP[tok]

C11_Witness ==
    /\ Parsed
    /\ raw = <<"2", ",", "5", " ", "L", "i", "T", "r", "E", "s", ".">>
    /\ ex.unit = <<"L">>
    /\ ex.net_quantity = <<"2", "5">>

StatedMonths ==
    {<<"0", "1">>, <<"0", "2">>, <<"0", "3">>, <<"0", "4">>, <<"0", "5">>, <<"0", "6">>,
     <<"0", "7">>, <<"0", "8">>, <<"0", "9">>, <<"1", "0">>, <<"1", "1">>, <<"1", "2">>}

\* C12: a month_year that is present has the form MM/YYYY with a "/", MM in
\* 01..12 and YYYY beginning with 19 or 20, whichever separator and spaces
\* the text had between month and year.
C12_MonthYearNormalized ==
    (Parsed /\ ex.month_year # undefined) =>
        /\ Len(ex.month_year) = 7
        /\ SubSeq(ex.month_year, 1, 2) \in StatedMonths
        /\ ex.month_year[3] = "/"
        /\ SubSeq(ex.month_year, 4, 5) \in {<<"1", "9">>, <<"2", "0">>}
        /\ ex.month_year[6] \in Digits
        /\ ex.month_year[7] \in Digits

C12_Witness ==
    /\ Parsed
    /\ raw = <<" ", "0", "9", " ", "-", " ", "1", "9", "9", "9">>
    /\ ex.month_year = <<"0", "9", "/", "1", "9", "9", "9">>

\* the line without its leading label: what follows the first colon and the
\* white space behind it; the whole line when it has no colon
StatedWithoutLabel(l) ==
    LET C == {c \in 1..Len(l) : l[c] = ":"}
        rest == SubSeq(l, Min(C) + 1, Len(l))
        keep == {i \in 1..Len(rest) : rest[i] \notin WhiteSpace}
    IN  IF C = {} THEN l
        ELSE IF keep = {} THEN <<>>
        ELSE SubSeq(rest, Min(keep), Len(rest))

\* C13: the manufacturer line is the first trimmed non-empty line with a
\* manufacturer indicator; manufacturer_name is that line without its leading
\* label; manufacturer_address is present exactly when such a line exists and
\* the next non-empty line has a digit or a comma, and is then that line.
C13_ManufacturerLine ==
    Parsed =>
        LET lines == TrimmedNonEmptyLines(raw)
            M == {i \in 1..Len(lines) : TestManufacturer(lines[i])}
        IN  IF M = {}
            THEN ex.manufacturer_name = undefined /\ ex.manufacturer_address = undefined
            ELSE LET i == Min(M)
                     looksLikeAddress ==
                         /\ i + 1 <= Len(lines)
                         /\ \E k \in 1..Len(lines[i + 1]) : lines[i + 1][k] \in Digits \cup {","}
                 IN  /\ ex.manufacturer_name = StatedWithoutLabel(lines[i])
                     /\ (ex.manufacturer_address # undefined) = looksLikeAddress
                     /\ looksLikeAddress => ex.manufacturer_address = lines[i + 1]

C13_Witness ==
    /\ Parsed
    /\ raw = <<"M", "f", "g", " ", "b", "y", ":", " ", "A", "c", "m", "e", "\r", "\n", "1", "2", ",", " ", "R", "d", "\n", "5", "0">>
    /\ ex.manufacturer_name = <<"A", "c", "m", "e">>
    /\ ex.manufacturer_address = <<"1", "2", ",", " ", "R", "d">>

\* the trimmed remainder of the line behind the colon of its first name:
StatedAfterNameColon(l) ==
    LET I == {i \in 1..Len(l) : LitAtI(l, i, <<"n", "a", "m", "e">>)
                                   /\ CharAt(l, SkipSpaces(l, i + 4)) = ":"}
        c == SkipSpaces(l, Min(I) + 4)
    IN  trim(SubSeq(l, c + 1, Len(l)))

\* C14: generic_name is the trimmed remainder behind the colon of name: in
\* the first line that has name:, also when another colon precedes name: in
\* that line; without such a line generic_name is absent.
C14_GenericNameAfterNameColon ==
    Parsed =>
        LET lines == TrimmedNonEmptyLines(raw)
            N == {i \in 1..Len(lines) : TestName(lines[i])}
        IN  IF N = {} THEN ex.generic_name = undefined
            ELSE ex.generic_name = StatedAfterNameColon(lines[Min(N)])

\* the string v contains the string w
ContainsString(v, w) ==
    /\ v # undefined
    /\ \E a \in 1..Len(v) : a + Len(w) - 1 <= Len(v) /\ SubSeq(v, a, a + Len(w) - 1) = w

\* C15: the worked example yields mrp "₹199.00", net_quantity "250", unit "g",
\* a manufacturer_name containing "Acme Foods Ltd", month_year "12/2025" and a
\* consumer_care containing "1800-123-4567".
C15_WorkedExample ==
    (Parsed /\ raw = ExampleText) =>
        /\ ex.mrp = <<RUPEE, "1", "9", "9", ".", "0", "0">>
        /\ ex.net_quantity = <<"2", "5", "0">>
        /\ ex.unit = <<"g">>
        /\ ContainsString(ex.manufacturer_name, <<"A", "c", "m", "e", " ", "F", "o", "o", "d", "s", " ", "L", "t", "d">>)
        /\ ex.month_year = <<"1", "2", "/", "2", "0", "2", "5">>
        /\ ContainsString(ex.consumer_care, <<"1", "8", "0", "0", "-", "1", "2", "3", "-", "4", "5", "6", "7">>)

C15_Witness ==
    /\ Parsed
    /\ raw = ExampleText
    /\ ex.net_quantity = <<"2", "5", "0">>
    /\ ex.raw_text = ExampleText

\* Strategy A has returned a result / is counting the differing bits
ClientReturned == pc = "cv_client_returned"

ClientCounting == pc = "cv_hamming"

\* the hundredths h are 1 - dist / 64 rounded to two decimals
StatedRounded(h, dist) ==
    /\ 2 * (64 * h - 100 * (64 - dist)) <= 64
    /\ 2 * (100 * (64 - dist) - 64 * h) <= 64

\* C16: in Strategy A the Hamming distance of the two fingerprints is an
\* integer in [0, 64], and the similarity returned is 1 - dist / 64 rounded to
\* two decimals and lies in [0, 1].
C16_DistanceAndSimilarityInRange ==
    /\ (ClientCounting \/ ClientReturned) => client.count \in 0..64
    /\ ClientReturned =>
          /\ result.similarity \in 0..100
          /\ StatedRounded(result.similarity, client.count)

C16_Witness ==
    /\ ClientReturned
    /\ client.count = 64
    /\ result.similarity = 0
    /\ Cardinality(client.h1) = 32

\* C17: Strategy A is symmetric and reflexive on fingerprints: the result
\* (similarity, flag, verdict) for (h1, h2) equals the result for (h2, h1),
\* and for h1 = h2 the similarity is 1.0, packaging_layout_diff is absent and
\* the verdict is likely_match.  (A comparison Strategy A answers after the
\* images were swapped was answered by Strategy A before the swap as well.)
C17_SymmetricAndReflexive ==
    ClientReturned =>
        /\ \A i \in 1..Len(previous) : result = previous[i]
        /\ client.h1 = client.h2 =>
              /\ result.similarity = 100
              /\ result.flags = <<[key |-> "packaging_layout_diff", present |-> FALSE]>>
              /\ result.verdict = "likely_match"

C17_Witness ==
    /\ ClientReturned
    /\ Len(previous) = 1
    /\ client.h1 # client.h2
    /\ Cardinality(client.h1) < Cardinality(client.h2)
    /\ result = previous[1]
    /\ result.similarity = 16

\* a call of cvSimilarityClient that has started counting goes on to its return
SpecCVFair == SpecCV /\ WF_vars(HammingPass \/ CvSimilarityClientReturn)

\* the bit positions of the full 64-bit value in which the hashes of the two
\* images differ: those set in either hash but not in both
StatedDifferingBits ==
    (0..63) \cap ((AverageHash(refFile) \cup AverageHash(userFile))
                      \ (AverageHash(refFile) \cap AverageHash(userFile)))

\* C18: hammingDistanceHashBigInt terminates and returns exactly the number of
\* bit positions in which the two fingerprints differ over the full 64-bit
\* value, and cvSimilarityClient uses this full-width function (not the
\* 32-bit-truncated computeAHash): while counting, the passes made and the 1
\* bits left in x add up to the number of differing positions; at the return
\* the count is that number; and counting leads to the return.
C18_ExactPopcountTerminates ==
    /\ [](ClientCounting =>
             client.count + Cardinality(client.x) = Cardinality(StatedDifferingBits))
    /\ [](ClientReturned => client.count = Cardinality(StatedDifferingBits))
    /\ (ClientCounting ~> ClientReturned)

C18_Witness ==
    /\ ClientReturned
    /\ refFile = Step(White, Black, 10)
    /\ userFile = Step(White, Black, 20)
    /\ client.count = 10
    /\ StatedDifferingBits \cap (0..31) = {}

\* the verdict stated for the similarity num / den
StatedVerdict(num, den) ==
    IF 100 * num >= 85 * den THEN "likely_match"
    ELSE IF 100 * num >= 70 * den THEN "likely_match_with_warnings"
    ELSE "mismatch"

\* Strategy B has returned a result
GoogleReturned == pc = "cv_google_returned"

\* C19: both strategies map similarity to verdict with inclusive lower bounds:
\* similarity >= 0.85 gives likely_match, 0.70 <= similarity < 0.85 gives
\* likely_match_with_warnings, similarity < 0.70 gives mismatch; exactly 0.85
\* is likely_match, exactly 0.70 is likely_match_with_warnings and 0.6999 is
\* mismatch.  Strategy A maps 1 - dist / 64, Strategy B the similarity it
\* returns.
C19_InclusiveThresholds ==
    /\ ClientReturned => result.verdict = StatedVerdict(64 - client.count, 64)
    /\ GoogleReturned => result.verdict = StatedVerdict(result.similarity, 100)
    /\ VerdictClient([num |-> 85, den |-> 100]) = "likely_match"
    /\ VerdictClient([num |-> 70, den |-> 100]) = "likely_match_with_warnings"
    /\ VerdictClient([num |-> 6999, den |-> 10000]) = "mismatch"
    /\ VerdictGoogle(85) = "likely_match"
    /\ VerdictGoogle(70) = "likely_match_with_warnings"
    /\ VerdictGoogle(69) = "mismatch"

C19_Witness ==
    /\ GoogleReturned
    /\ result.similarity = 85
    /\ result.verdict = "likely_match"
    /\ vision.responses[1].labels = vision.responses[2].labels
    /\ vision.responses[1].colors # vision.responses[2].colors

\* C20: in every result returned by either strategy the verdict equals the
\* threshold mapping applied to the returned two-decimal similarity; for
\* Strategy A, which derives the verdict from the unrounded 1 - dist / 64 and
\* rounds afterwards, this holds for every Hamming distance 0..64.
C20_VerdictOfReturnedSimilarity ==
    /\ (ClientReturned \/ GoogleReturned) =>
          result.verdict = StatedVerdict(result.similarity, 100)
    /\ \A dist \in 0..64 :
          cvSimilarityClient(dist).verdict = StatedVerdict(cvSimilarityClient(dist).similarity, 100)

C20_Witness ==
    /\ ClientReturned
    /\ client.count = 10
    /\ result.similarity = 84
    /\ result.verdict = "likely_match_with_warnings"

\* the flag of the result with the given key; results carry each key once
FlagOf(res, key) == CHOOSE f \in {res.flags[i] : i \in 1..Len(res.flags)} : f.key = key

HasFlag(res, key) == \E i \in 1..Len(res.flags) : res.flags[i].key = key

\* C21: in both strategies the packaging_layout_diff flag is present exactly
\* when a difference is observed: in Strategy A iff the Hamming distance is
\* > 0, in Strategy B iff the returned similarity is < 1.0; in both, the flag
\* is absent iff the returned similarity equals 1.0.
C21_LayoutDiffFlag ==
    /\ ClientReturned =>
          /\ HasFlag(result, "packaging_layout_diff")
          /\ FlagOf(result, "packaging_layout_diff").present = (client.count > 0)
          /\ ~FlagOf(result, "packaging_layout_diff").present <=> result.similarity = 100
    /\ GoogleReturned =>
          /\ HasFlag(result, "packaging_layout_diff")
          /\ FlagOf(result, "packaging_layout_diff").present = (result.similarity < 100)
          /\ ~FlagOf(result, "packaging_layout_diff").present <=> result.similarity = 100

C21_Witness ==
    /\ ClientReturned
    /\ client.count = 1
    /\ result.similarity = 98
    /\ FlagOf(result, "packaging_layout_diff").present

\* the keys of the flags of a result, in their order
FlagKeys(res) == [i \in 1..Len(res.flags) |-> res.flags[i].key]

\* the lower-cased label set contains a label matching logo|brand|trademark
StatedLogoIndicated(labels) ==
    \E i \in 1..Len(labels) :
        \/ ContainsString(toLowerCase(labels[i]), <<"l", "o", "g", "o">>)
        \/ ContainsString(toLowerCase(labels[i]), <<"b", "r", "a", "n", "d">>)
        \/ ContainsString(toLowerCase(labels[i]), <<"t", "r", "a", "d", "e", "m", "a", "r", "k">>)

\* C22: Strategy B always emits the two flags packaging_layout_diff and
\* logo_mismatch while Strategy A emits only packaging_layout_diff;
\* logo_mismatch.present is false if and only if both the reference and the
\* user label sets contain a label matching logo|brand|trademark, and true in
\* every other case (including when either label set is empty).
C22_LogoMismatchFlag ==
    /\ ClientReturned => FlagKeys(result) = <<"packaging_layout_diff">>
    /\ GoogleReturned =>
          /\ FlagKeys(result) = <<"packaging_layout_diff", "logo_mismatch">>
          /\ ~FlagOf(result, "logo_mismatch").present <=>
                 /\ StatedLogoIndicated(vision.responses[1].labels)
                 /\ StatedLogoIndicated(vision.responses[2].labels)
          /\ (vision.responses[1].labels = <<>> \/ vision.responses[2].labels = <<>>) =>
                 FlagOf(result, "logo_mismatch").present

C22_Witness ==
    /\ GoogleReturned
    /\ ~FlagOf(result, "logo_mismatch").present
    /\ vision.responses[1].labels[1] = <<"B", "r", "a", "n", "d", "i", "n", "g">>
    /\ vision.responses[2].labels[1] = <<"t", "r", "a", "d", "e", "m", "a", "r", "k">>

\* the lower-cased label set of the response of one image
StatedLabelSet(resp) == {toLowerCase(resp.labels[i]) : i \in 1..Len(resp.labels)}

\* C23: jaccardSimilarity(A, B) equals |A intersect B| / |A union B| for all
\* finite label sets, is exactly 0 (never NaN or undefined) when both sets are
\* empty, is symmetric in its arguments, lies in [0, 1] and equals 1 iff
\* A = B and A is non-empty.
C23_JaccardIndex ==
    GoogleReturned =>
        LET A == StatedLabelSet(vision.responses[1])
            B == StatedLabelSet(vision.responses[2])
            sim == google.labelSim
        IN  /\ sim.den > 0
            /\ (A \cup B) # {} =>
                  sim.num * Cardinality(A \cup B) = Cardinality(A \cap B) * sim.den
            /\ (A = {} /\ B = {}) => sim.num = 0
            /\ sim = jaccardSimilarity(B, A)
            /\ 0 <= sim.num /\ sim.num <= sim.den
            /\ sim.num = sim.den <=> (A = B /\ A # {})

C23_Witness ==
    /\ GoogleReturned
    /\ Len(vision.responses[1].labels) = 2
    /\ StatedLabelSet(vision.responses[1]) = {<<"t", "e", "a">>}
    /\ StatedLabelSet(vision.responses[2]) = {<<"t", "e", "a">>, <<"b", "o", "x">>}
    /\ google.labelSim = [num |-> 1, den |-> 2]

\* the first five colours of a palette
StatedTop5(colors) == [i \in 1..Min({5, Len(colors)}) |-> colors[i]]

\* d * d is the square of the distance between the colours c and e
StatedDistanceSquared(c, e) ==
    (c[1] - e[1]) * (c[1] - e[1]) + (c[2] - e[2]) * (c[2] - e[2]) + (c[3] - e[3]) * (c[3] - e[3])

\* the distance from the colour c to the nearest colour of the palette b (the
\* distances of the palettes considered are whole numbers below 442)
StatedNearest(c, b) ==
    CHOOSE d \in 0..442 :
        /\ \E j \in 1..Len(b) : d * d = StatedDistanceSquared(c, b[j])
        /\ \A j \in 1..Len(b) : d * d <= StatedDistanceSquared(c, b[j])

\* the sum over the palette a of 442 - min(d, 442), as a sum over the set of
\* its indices
RECURSIVE StatedSum(_, _, _)
StatedSum(I, a, b) ==
    IF I = {} THEN 0
    ELSE LET i == CHOOSE k \in I : TRUE
         IN  (442 - StatedNearest(a[i], b)) + StatedSum(I \ {i}, a, b)

\* C24: Strategy B's similarity equals 0.7 x labelSimilarity + 0.3 x
\* colorSimilarity rounded to two decimals and always lies in [0, 1], where
\* colorSimilarity is 0 if either top-5 palette is empty and otherwise the
\* average, over the reference palette's colours only, of 1 - min(d, 442) / 442
\* with d the distance to the nearest user-palette colour; consequently the
\* similarity is at most 0.30 when the label sets are disjoint or both empty
\* and at most 0.70 when either palette is empty.
C24_WeightedSimilarity ==
    GoogleReturned =>
        LET L == google.labelSim
            C == google.colorSim
            a == StatedTop5(vision.responses[1].colors)
            b == StatedTop5(vision.responses[2].colors)
            A == StatedLabelSet(vision.responses[1])
            B == StatedLabelSet(vision.responses[2])
            s == result.similarity
            \* 1000 * (0.7 L + 0.3 C) as the fraction wn / wd
            wn == 700 * L.num * C.den + 300 * C.num * L.den
            wd == L.den * C.den
        IN  /\ s \in 0..100
            /\ 10 * s * wd - wn <= 5 * wd
            /\ wn - 10 * s * wd <= 5 * wd
            /\ (a = <<>> \/ b = <<>>) => C.num = 0
            /\ (a # <<>> /\ b # <<>>) =>
                  C.num * 442 * Len(a) = StatedSum(1..Len(a), a, b) * C.den
            /\ (A \cap B = {}) => s <= 30
            /\ (a = <<>> \/ b = <<>>) => s <= 70

C24_Witness ==
    /\ GoogleReturned
    /\ Len(vision.responses[1].colors) = 6
    /\ vision.responses[2].colors = <<Red, Black>>
    /\ StatedLabelSet(vision.responses[1]) = StatedLabelSet(vision.responses[2])
    /\ google.colorSim = [num |-> 2210, den |-> 2210]
    /\ result.similarity = 100

\* annotations were received for the image of this response
StatedAnnotated(resp) == resp.labels # <<>> \/ resp.colors # <<>>

\* C25: Strategy B fails with an error and returns no result whenever the
\* annotation service is unavailable, answers with an error, or returns
\* incomplete data in which one side's annotations are missing; a result is
\* returned only when annotations for both images were received.
C25_FailsWithoutBothAnnotations ==
    /\ GoogleReturned =>
          /\ vision.status = "ok"
          /\ Len(vision.responses) = 2
          /\ StatedAnnotated(vision.responses[1])
          /\ StatedAnnotated(vision.responses[2])
    /\ pc = "cv_google_failed" => "error" \in DOMAIN result

\* Strategy A is running or has ended, for the comparison under way
ClientStarted == pc \in {"cv_hamming", "cv_client_returned", "cv_client_failed"}

\* C26: in handleCVSimilarity Strategy A is started if and only if Strategy B
\* has failed for the same comparison; if B succeeds the stored result is B's
\* and A never runs; if B fails and A succeeds the stored result is A's; if A
\* fails too, the failure is surfaced to the user as an error, no further
\* strategy is tried, and cvResult is not replaced by any new value.
C26_FallbackOrder ==
    /\ [][(~ClientStarted /\ ClientStarted') =>
              (pc = "cv_google_failed" /\ "error" \in DOMAIN result)]_vars
    /\ [][(pc = "cv_google_failed" /\ pc' # pc) => ClientStarted']_vars
    /\ [](GoogleReturned =>
              /\ "similarity" \in DOMAIN result
              /\ scanner.cvResult = <<result>>)
    /\ [][GoogleReturned => pc' \in {"cv_google_returned", "cv_idle"}]_vars
    /\ [](ClientReturned =>
              /\ result = cvSimilarityClient(client.count)
              /\ scanner.cvResult = <<result>>)
    /\ [][(pc' = "cv_client_failed" /\ pc' # pc) =>
              /\ scanner'.toast = "error"
              /\ scanner'.cvResult = scanner.cvResult]_vars
    /\ [][pc = "cv_client_failed" =>
              /\ pc' \in {"cv_client_failed", "cv_idle"}
              /\ scanner' = scanner]_vars

C26_Witness ==
    /\ pc = "cv_client_failed"
    /\ userFile = Unreadable
    /\ Len(previous) = 1
    /\ "similarity" \in DOMAIN previous[1]
    /\ scanner.cvResult = <<previous[1]>>
    /\ scanner.toast = "error"

\* the gemini-* models that the ListModels endpoint reports for the key
\* during the call under way
StatedReportedModels ==
    IF gemini.listOk
    THEN {n \in {ModelNames(gemini.models)[i] : i \in 1..Len(ModelNames(gemini.models))} :
             TestPrefix(n, <<"g", "e", "m", "i", "n", "i", "-">>)}
    ELSE {}

\* C27: whenever the attempt with the default model fails inside
\* generateWithGemini, the call goes on to try every gemini-* model that the
\* ListModels endpoint reports for the key (in preference order, each model at
\* most once per call) until one returns non-empty text, and this holds for
\* every call in a session regardless of the outcomes of earlier calls; the
\* call ends either with a non-empty string or with a thrown error listing
\* the models tried.
C27_TriesEveryReportedModel ==
    /\ pc = "gm_threw" =>
          /\ gemini.lastError
          /\ \A m \in StatedReportedModels : \E i \in 1..Len(gemini.tried) : gemini.tried[i] = m
    /\ pc \in {"gm_default", "gm_listing", "gm_candidate", "gm_returned", "gm_threw"} =>
          /\ \A i, j \in 1..Len(gemini.tried) : gemini.tried[i] = gemini.tried[j] => i = j
          /\ \A i, j \in 2..Len(gemini.tried) :
                i < j => score(gemini.tried[i]) >= score(gemini.tried[j])
    /\ pc = "gm_returned" => gemini.output # <<>>

\* the outcome of the rule with the given key in the rules returned
StatedPassed(key) ==
    (CHOOSE r \in {out.rules[i] : i \in 1..Len(out.rules)} : r.rule_key = key).passed

\* the rule with the given key is among the violations of the summary
StatedViolation(key) ==
    \E i \in 1..Len(out.summary.violations) : out.summary.violations[i] = key

\* C28: on every record produced by parseFieldsFromRawText the derived rules
\* agree with their presence rules in validateLocally: net_quantity_present,
\* net_quantity_numeric and net_quantity_unit_valid always have the same
\* outcome, and whenever mrp_present passes both mrp_format_valid and
\* mrp_prominent_in_text pass; so rules 4, 5 and 8 never contribute a
\* violation on their own.
C28_DerivedRulesFollowPresence ==
    Validated =>
        /\ StatedPassed("net_quantity_numeric") = StatedPassed("net_quantity_present")
        /\ StatedPassed("net_quantity_unit_valid") = StatedPassed("net_quantity_present")
        /\ StatedPassed("mrp_present") =>
              /\ StatedPassed("mrp_format_valid")
              /\ StatedPassed("mrp_prominent_in_text")
        /\ \A k \in {"net_quantity_numeric", "net_quantity_unit_valid"} :
              StatedViolation(k) => StatedViolation("net_quantity_present")
        /\ StatedViolation("mrp_format_valid") => StatedViolation("mrp_present")

C28_Witness ==
    /\ Validated
    /\ raw = <<"R", "s", ".", "9", " ", "2", ",", "5", " ", "L", "i", "T", "r", "E", "s", ".">>
    /\ ex.unit = <<"L">>
    /\ StatedPassed("net_quantity_unit_valid")
    /\ StatedPassed("mrp_prominent_in_text")
    /\ ~StatedPassed("consumer_care_present")

\* every request sent has settled
AllSettled == \A i \in 1..Len(requests) : ~requests[i].pending

\* what the page should show for the file selected last: the fields, rules
\* and summary of its text, or null if its OCR failed
StatedResultOfLast ==
    LET last == requests[Len(requests)].file
    IN  IF last = <<>> THEN <<>>
        ELSE <<[scan_id |-> "direct-ocrspace",
                extracted |-> parseFieldsFromRawText(last[1]),
                rules |-> validateLocally(parseFieldsFromRawText(last[1])).rules,
                summary |-> validateLocally(parseFieldsFromRawText(last[1])).summary]>>

\* C29: for any sequence of label selections, including a new selection made
\* while an earlier direct-OCR request is still in flight, once all requests
\* have completed the stored ocrResult is the one derived from the most
\* recently selected file, or null if that file's OCR failed; a late response
\* of an earlier selection never overwrites it.
C29_LastSelectionWins ==
    (pc = "ocr" /\ requests # <<>> /\ AllSettled) => scanner.ocrResult = StatedResultOfLast


\* a request of the OCR handler is in flight
OcrInFlight == \E i \in 1..Len(requests) : requests[i].pending

\* a comparison of the CV handler is in flight
CvInFlight == pc \in {"cv_start", "cv_google_failed", "cv_hamming"}

\* C30: the loading flag of a handler (ocrLoading, cvLoading) is true in
\* every state in which at least one request of that handler is in flight.
C30_LoadingWhileInFlight ==
    /\ OcrInFlight => scanner.ocrLoading
    /\ CvInFlight => scanner.cvLoading

=============================================================================
